---------------------------- MODULE Spec2Model ----------------------------
(***************************************************************************)
(* A model of the CXBIN reader (cxbin_converter/cxbin_reader.py).          *)
(*                                                                         *)
(* load_cxbin is a sequential decoder over a byte stream.  The model keeps *)
(* the stream, its read position, the decoder's local variables and the    *)
(* position in the code (pc); one action per step of the decoder.          *)
(*                                                                         *)
(* Conventions:                                                            *)
(*   - a byte is an integer 0..255, a buffer a sequence of bytes;          *)
(*   - Python's Optional[x] is a sequence: <<>> is None, <<x>> is x;       *)
(*   - an operator that may raise returns a record whose field ok says     *)
(*     whether it returned, and whose field err names the exception.       *)
(***************************************************************************)
EXTENDS Integers, Sequences, FiniteSets, TLC

(***************************************************************************)
(* Bounds of the model.                                                    *)
(***************************************************************************)
\* vertex / face counts of a geometry block range over -1..MaxCount
MaxCount == 2
\* UV / face-UV / texture-id counts range over -1..MaxUV
MaxUV == 1
\* material counts range over -1..MaxMats
MaxMats == 2
\* texture map counts range over -1..MaxMaps
MaxMaps == 2

None == <<>>
Some(x) == <<x>>

Min(a, b) == IF a < b THEN a ELSE b
Max(a, b) == IF a > b THEN a ELSE b

(***************************************************************************)
(* struct "<i": signed little-endian 32-bit integers.                      *)
(***************************************************************************)
\* struct.unpack("<i", b)[0] for a 4-byte buffer b
UnpackInt32LE(b) ==
    LET top == IF b[4] >= 128 THEN b[4] - 256 ELSE b[4]
    IN  b[1] + 256 * b[2] + 65536 * b[3] + 16777216 * top

\* struct.pack("<i", n): the bytes a file holds for the field value n
PackInt32LE(n) ==
    IF n >= 0
    THEN << n % 256, (n \div 256) % 256, (n \div 65536) % 256,
            (n \div 16777216) % 256 >>
    ELSE LET m == -(n + 1)
         IN  << 255 - (m % 256), 255 - ((m \div 256) % 256),
                255 - ((m \div 65536) % 256), 255 - ((m \div 16777216) % 256) >>

(***************************************************************************)
(* Python slicing b[lo:hi] (negative indices count from the end, indices   *)
(* are clamped to the buffer).                                             *)
(***************************************************************************)
PyIndex(i, n) == IF i < 0 THEN Max(i + n, 0) ELSE Min(i, n)

PySlice(s, lo, hi) ==
    LET a == PyIndex(lo, Len(s))
        b == PyIndex(hi, Len(s))
    IN  IF a >= b THEN <<>> ELSE SubSeq(s, a + 1, b)

(***************************************************************************)
(* The byte cursor.  p is the stream offset (0-based).  A read is written  *)
(* as an operator applied to what the call before it produced.             *)
(***************************************************************************)
\* f.read(n): up to n bytes, everything to the end of the stream when n < 0
FileRead(s, p, n) ==
    IF n < 0 THEN SubSeq(s, p + 1, Len(s))
    ELSE SubSeq(s, p + 1, Min(p + n, Len(s)))

\* _read_exact, given b = f.read(n): EOFError on a short read
ExactlyRead(b, p, n) ==
    [ok |-> Len(b) = n, err |-> "EOFError", bytes |-> b, pos |-> p + Len(b)]

\* _read_exact / _read_bytes
ReadExact(s, p, n) == ExactlyRead(FileRead(s, p, n), p, n)

\* _read_int_le, given r = _read_exact(f, 4)
UnpackRead(r) ==
    [ok |-> r.ok, err |-> r.err, pos |-> r.pos,
     val |-> IF r.ok THEN UnpackInt32LE(r.bytes) ELSE 0]

\* _read_int_le
ReadIntLE(s, p) == UnpackRead(ReadExact(s, p, 4))

NoInts(p) == [ok |-> TRUE, err |-> "", pos |-> p, vals |-> <<>>]

PrependInt(v, t) ==
    [ok |-> t.ok, err |-> t.err, pos |-> t.pos,
     vals |-> IF t.ok THEN <<v>> \o t.vals ELSE <<>>]

\* k consecutive _read_int_le calls; stops at the first one that raises
RECURSIVE ReadInts(_, _, _)
ReadIntsAfter(s, r, k) ==
    IF ~r.ok THEN [ok |-> FALSE, err |-> r.err, pos |-> r.pos, vals |-> <<>>]
    ELSE PrependInt(r.val, ReadInts(s, r.pos, k - 1))

ReadInts(s, p, k) ==
    IF k <= 0 THEN NoInts(p) ELSE ReadIntsAfter(s, ReadIntLE(s, p), k)

(***************************************************************************)
(* zlib.  The model's streams are "stored" streams: one header byte, the   *)
(* data, one checksum byte over the data.  A stream that is too short, has *)
(* another header byte or a wrong checksum is malformed (zlib.error).      *)
(***************************************************************************)
ZlibHeader == 120

RECURSIVE SumBytes(_)
SumBytes(s) == IF s = <<>> THEN 0 ELSE Head(s) + SumBytes(Tail(s))

Checksum(s) == (1 + SumBytes(s)) % 251

\* zlib.compress: how a well-formed compressed payload is built
ZlibCompress(raw) == <<ZlibHeader>> \o raw \o <<Checksum(raw)>>

ZlibError == [ok |-> FALSE, err |-> "zlib.error", raw |-> <<>>]

ZlibBody(buf, body) ==
    IF buf[1] = ZlibHeader /\ buf[Len(buf)] = Checksum(body)
    THEN [ok |-> TRUE, err |-> "", raw |-> body]
    ELSE ZlibError

\* zlib.decompress
ZlibRaw(buf) ==
    IF Len(buf) < 2 THEN ZlibError
    ELSE ZlibBody(buf, SubSeq(buf, 2, Len(buf) - 1))

\* the size check of _zlib_decompress, given z = zlib.decompress(buf)
CheckSize(z, expected) ==
    IF ~z.ok THEN z
    ELSE IF expected # None /\ Len(z.raw) # expected[1]
    THEN [ok |-> FALSE, err |-> "ValueError", raw |-> <<>>]
    ELSE z

\* _zlib_decompress(buf, expected_size); expected is None or Some(size)
ZlibDecompress(buf, expected) == CheckSize(ZlibRaw(buf), expected)

(***************************************************************************)
(* numpy: np.frombuffer(buf, dtype=<4-byte type>).reshape((rows, cols)).   *)
(***************************************************************************)
\* np.frombuffer(buf, dtype): the 4-byte elements of buf; ValueError unless
\* len(buf) is a multiple of 4
FromBuffer(buf) ==
    [ok |-> Len(buf) % 4 = 0, err |-> "ValueError",
     elems |-> IF Len(buf) % 4 = 0
               THEN [i \in 1..(Len(buf) \div 4) |-> SubSeq(buf, 4 * i - 3, 4 * i)]
               ELSE <<>>]

\* does an array of n elements take the shape (rows, cols); a negative rows is
\* the one dimension numpy infers
Fits(n, rows, cols) == IF rows < 0 THEN n % cols = 0 ELSE rows * cols = n

\* .reshape((rows, cols))
Reshape(elems, rows, cols) ==
    [ok |-> Fits(Len(elems), rows, cols), err |-> "ValueError",
     arr |-> IF Fits(Len(elems), rows, cols)
             THEN [i \in 1..(Len(elems) \div cols) |->
                     SubSeq(elems, (i - 1) * cols + 1, i * cols)]
             ELSE <<>>]

ReshapeBuffer(e, rows, cols) ==
    IF ~e.ok THEN [ok |-> FALSE, err |-> e.err, arr |-> <<>>]
    ELSE Reshape(e.elems, rows, cols)

\* the elements of an int32 buffer as integers
AsInt32(e) ==
    [ok |-> e.ok, err |-> e.err,
     elems |-> [i \in 1..Len(e.elems) |-> UnpackInt32LE(e.elems[i])]]

\* np.frombuffer(buf, dtype=np.float32).reshape(shape): elements kept as bit patterns
Float32Array(buf, rows, cols) == ReshapeBuffer(FromBuffer(buf), rows, cols)

\* np.frombuffer(buf, dtype=np.int32).reshape(shape)
Int32Array(buf, rows, cols) == ReshapeBuffer(AsInt32(FromBuffer(buf)), rows, cols)

(***************************************************************************)
(* The result types.                                                       *)
(***************************************************************************)
\* CxbinMaterials(): the dataclass defaults; the two temporary attributes
\* _uvs_internal / _face_uvs_internal are absent (None) until a parser sets them
CxbinMaterials ==
    [material_blocks |-> <<>>, material_name |-> None, textures |-> <<>>,
     texture_ids |-> None, uvs_internal |-> None, face_uvs_internal |-> None]

\* CxbinMesh(...)
CxbinMesh(v, f, uv, fuv, ms, ver, cbytes, ubytes) ==
    [vertices |-> v, faces |-> f, uvs |-> uv, face_uvs |-> fuv,
     materials |-> ms, cxbin_version |-> ver,
     compressed_bytes |-> cbytes, uncompressed_bytes |-> ubytes]

(***************************************************************************)
(* _parse_mesh_block as a function of the stream and the offset it starts  *)
(* at, stage by stage.  The result carries the function's locals at its    *)
(* exit: the header fields (None when the header could not be read) and    *)
(* raw (None when the payload was not decompressed).                       *)
(***************************************************************************)
MeshFailure(err, p, hdr, raw) ==
    [ok |-> FALSE, err |-> err, pos |-> p, hdr |-> hdr, raw |-> raw,
     vertices |-> <<>>, faces |-> <<>>, meta |-> None]

\* the return of _parse_mesh_block, given the two arrays
MeshArrays(hdr, p, raw, vertices, faces) ==
    IF ~vertices.ok THEN MeshFailure(vertices.err, p, Some(hdr), Some(raw))
    ELSE IF ~faces.ok THEN MeshFailure(faces.err, p, Some(hdr), Some(raw))
    ELSE [ok |-> TRUE, err |-> "", pos |-> p, hdr |-> Some(hdr), raw |-> Some(raw),
          vertices |-> vertices.arr, faces |-> faces.arr,
          meta |-> Some([compressed_bytes |-> hdr.compress_num,
                         uncompressed_bytes |-> Len(raw)])]

\* expected = vert_num * 3 * 4 + face_num * 3 * 4
ExpectedGeometry(hdr) == hdr.vert_num * 3 * 4 + hdr.face_num * 3 * 4

\* MeshRaw without the size check
MeshRaw_NoSizeCheck(hdr, p, z) ==
    IF ~z.ok THEN MeshFailure(z.err, p, Some(hdr), None)
    ELSE MeshArrays(hdr, p, z.raw,
            Float32Array(PySlice(z.raw, 0, hdr.vert_num * 12), hdr.vert_num, 3),
            Int32Array(PySlice(z.raw, hdr.vert_num * 12, Len(z.raw)), hdr.face_num, 3))

\* MeshRaw with raw split at face_num * 12 instead of vert_num * 12
MeshRaw_SplitAtFaces(hdr, p, z) ==
    IF ~z.ok THEN MeshFailure(z.err, p, Some(hdr), None)
    ELSE IF Len(z.raw) # ExpectedGeometry(hdr)
    THEN MeshFailure("ValueError", p, Some(hdr), Some(z.raw))
    ELSE MeshArrays(hdr, p, z.raw,
            Float32Array(PySlice(z.raw, 0, hdr.face_num * 12), hdr.vert_num, 3),
            Int32Array(PySlice(z.raw, hdr.face_num * 12, Len(z.raw)), hdr.face_num, 3))

\* the size check and the split of raw, given z = _zlib_decompress(cdata)
MeshRaw(hdr, p, z) ==
    IF ~z.ok THEN MeshFailure(z.err, p, Some(hdr), None)
    ELSE IF Len(z.raw) # ExpectedGeometry(hdr)
    THEN MeshFailure("ValueError", p, Some(hdr), Some(z.raw))
    ELSE MeshArrays(hdr, p, z.raw,
            Float32Array(PySlice(z.raw, 0, hdr.vert_num * 12), hdr.vert_num, 3),
            Int32Array(PySlice(z.raw, hdr.vert_num * 12, Len(z.raw)), hdr.face_num, 3))

\* given c = _read_bytes(f, compress_num)
MeshPayload(hdr, c) ==
    IF ~c.ok THEN MeshFailure(c.err, c.pos, Some(hdr), None)
    ELSE MeshRaw(hdr, c.pos, ZlibDecompress(c.bytes, None))

\* given h, the four header fields read
MeshHeader(s, h) ==
    IF ~h.ok THEN MeshFailure(h.err, h.pos, None, None)
    ELSE MeshPayload([total_num |-> h.vals[1], vert_num |-> h.vals[2],
                      face_num |-> h.vals[3], compress_num |-> h.vals[4]],
                     ReadExact(s, h.pos, h.vals[4]))

parse_mesh_block(s, p) == MeshHeader(s, ReadInts(s, p, 4))

(***************************************************************************)
(* The header of a material block: lead leading counts (the last of them   *)
(* material_num), then material_num sizes, then mtl_name_len,              *)
(* map_type_count, compress_num, then the compressed payload, decompressed *)
(* against total_num.  Shared by both parsers, whose code is the same but  *)
(* for the number of leading counts.                                       *)
(***************************************************************************)
BlockFailure(err, p) ==
    [ok |-> FALSE, err |-> err, pos |-> p, lead |-> <<>>, material_sizes |-> <<>>,
     mtl_name_len |-> 0, map_type_count |-> 0, compress_num |-> 0, raw |-> <<>>]

\* given z = _zlib_decompress(cdata, expected_size=total_num)
BlockRaw(lead, sizes, tail, p, z) ==
    IF ~z.ok THEN BlockFailure(z.err, p)
    ELSE [ok |-> TRUE, err |-> "", pos |-> p, lead |-> lead,
          material_sizes |-> sizes, mtl_name_len |-> tail[1],
          map_type_count |-> tail[2], compress_num |-> tail[3], raw |-> z.raw]

\* given c = _read_bytes(f, compress_num)
BlockPayload(lead, sizes, tail, c) ==
    IF ~c.ok THEN BlockFailure(c.err, c.pos)
    ELSE BlockRaw(lead, sizes, tail, c.pos, ZlibDecompress(c.bytes, Some(lead[1])))

\* given t = mtl_name_len, map_type_count, compress_num
BlockTail(s, lead, sizes, t) ==
    IF ~t.ok THEN BlockFailure(t.err, t.pos)
    ELSE BlockPayload(lead, sizes, t.vals, ReadExact(s, t.pos, t.vals[3]))

\* given m = the material sizes read
BlockSizes(s, lead, m) ==
    IF ~m.ok THEN BlockFailure(m.err, m.pos)
    ELSE BlockTail(s, lead, m.vals, ReadInts(s, m.pos, 3))

\* given a = the leading counts read
BlockLead(s, a, lead) ==
    IF ~a.ok THEN BlockFailure(a.err, a.pos)
    ELSE BlockSizes(s, a.vals, ReadInts(s, a.pos, a.vals[lead]))

ReadBlockHeader(s, p, lead) == BlockLead(s, ReadInts(s, p, lead), lead)

\* Taken without the length check: the slice, however short
Taken_Unchecked(chunk, ptr, n) ==
    [ok |-> TRUE, err |-> "", chunk |-> chunk, ptr |-> ptr + n]

\* Taken with ptr set to n instead of moved by n
Taken_Rewinds(chunk, ptr, n) ==
    [ok |-> Len(chunk) = n, err |-> "ValueError", chunk |-> chunk,
     ptr |-> IF Len(chunk) = n THEN n ELSE ptr]

\* take(n), given chunk = raw[ptr:ptr+n]
Taken(chunk, ptr, n) ==
    [ok |-> Len(chunk) = n, err |-> "ValueError", chunk |-> chunk,
     ptr |-> IF Len(chunk) = n THEN ptr + n ELSE ptr]

\* the closure take(n) of both material parsers: the chunk and the new ptr
take(raw, ptr, n) == Taken(PySlice(raw, ptr, ptr + n), ptr, n)

\* b"" where the code takes nothing
NothingTaken(ptr) == [ok |-> TRUE, err |-> "", chunk |-> <<>>, ptr |-> ptr]

\* name_bytes.split(b"\x00", 1)[0]
RECURSIVE SplitAtNul(_)
SplitAtNul(b) ==
    IF b = <<>> \/ Head(b) = 0 THEN <<>> ELSE <<Head(b)>> \o SplitAtNul(Tail(b))

ReplacementChar == 65533

\* .decode("utf-8", errors="replace") on buffers of ASCII bytes and stray
\* bytes >= 128 (which are no valid UTF-8 on their own): code points
DecodeUtf8Replace(b) ==
    [i \in 1..Len(b) |-> IF b[i] < 128 THEN b[i] ELSE ReplacementChar]

PNG_SIGNATURE == <<137, 80, 78, 71, 13, 10, 26, 10>>

\* buf.startswith(b"\x89PNG\r\n\x1a\n")
StartsWithPng(buf) ==
    Len(buf) >= Len(PNG_SIGNATURE) /\ SubSeq(buf, 1, Len(PNG_SIGNATURE)) = PNG_SIGNATURE


\* _try_png_bytes_from_rgba: Image.frombytes raises unless rgba holds exactly
\* width * height * 4 bytes; the PNG written is the signature followed by a
\* stand-in for the chunks (the dimensions and the pixels)
try_png_bytes_from_rgba(width, height, rgba) ==
    IF Len(rgba) = width * height * 4
    THEN [ok |-> TRUE, err |-> "",
          png |-> PNG_SIGNATURE \o <<width % 256, height % 256>> \o rgba]
    ELSE [ok |-> FALSE, err |-> "ValueError", png |-> <<>>]

\* ClampedSize without the clamp
ClampedSize_Declared(buf, p, n) == n

\* the clamp of a texture body of n declared bytes at offset p of buf
ClampedSize(buf, p, n) == IF p + n > Len(buf) THEN Max(0, Len(buf) - p) ELSE n

\* buf = take(buf_size) if buf_size else b""
TakeIfAny(buf, p, n) == IF n # 0 THEN take(buf, p, n) ELSE NothingTaken(p)

\* the entry appended by the new parser, given t = the body taken
NewEntry(t) ==
    [ok |-> t.ok, err |-> t.err, ptr |-> t.ptr,
     entry |-> [data |-> t.chunk, is_png |-> StartsWithPng(t.chunk),
                size_hint |-> None]]

\* buf_size: negative treated as zero
NonNegative(n) == IF n < 0 THEN 0 ELSE n

\* one texture map of the new layout at offset p of buf: [size][bytes]
NewTexture(buf, p) ==
    NewEntry(TakeIfAny(buf, p + 4,
        ClampedSize(buf, p + 4, NonNegative(UnpackInt32LE(SubSeq(buf, p + 1, p + 4))))))

\* EncodedEntry with the bytes read dropped when the encoding fails
EncodedEntry_DropsRaw(width, height, t, png) ==
    [ok |-> TRUE, err |-> "", ptr |-> t.ptr,
     entry |-> IF png.ok
               THEN [data |-> png.png, is_png |-> TRUE,
                     size_hint |-> Some(<<width, height>>)]
               ELSE [data |-> <<>>, is_png |-> FALSE,
                     size_hint |-> Some(<<width, height>>)]]

\* the entry appended by the legacy parser, given png = the encoding attempt
EncodedEntry(width, height, t, png) ==
    [ok |-> TRUE, err |-> "", ptr |-> t.ptr,
     entry |-> IF png.ok
               THEN [data |-> png.png, is_png |-> TRUE,
                     size_hint |-> Some(<<width, height>>)]
               ELSE [data |-> t.chunk, is_png |-> FALSE,
                     size_hint |-> Some(<<width, height>>)]]

\* given t = the RGBA bytes taken
OldBody(width, height, t) ==
    IF ~t.ok THEN [ok |-> FALSE, err |-> t.err, ptr |-> t.ptr, entry |-> <<>>]
    ELSE EncodedEntry(width, height, t, try_png_bytes_from_rgba(width, height, t.chunk))

\* OldDimensions with a non-positive width or height rejected
OldDimensions_Rejects(buf, p, width, height) ==
    IF width <= 0 \/ height <= 0
    THEN [ok |-> FALSE, err |-> "ValueError", ptr |-> p, entry |-> <<>>]
    ELSE OldBody(width, height,
            IF ClampedSize(buf, p, width * height * 4) > 0
            THEN take(buf, p, ClampedSize(buf, p, width * height * 4))
            ELSE NothingTaken(p))

\* given width and height, read; p is the offset after them
OldDimensions(buf, p, width, height) ==
    IF width <= 0 \/ height <= 0
    THEN [ok |-> TRUE, err |-> "", ptr |-> p,
          entry |-> [data |-> <<>>, is_png |-> FALSE,
                     size_hint |-> Some(<<width, height>>)]]
    ELSE OldBody(width, height,
            IF ClampedSize(buf, p, width * height * 4) > 0
            THEN take(buf, p, ClampedSize(buf, p, width * height * 4))
            ELSE NothingTaken(p))

\* one texture map of the legacy layout at offset p of buf: [width][height][rgba]
OldTexture(buf, p) ==
    OldDimensions(buf, p + 8, UnpackInt32LE(SubSeq(buf, p + 1, p + 4)),
                  UnpackInt32LE(SubSeq(buf, p + 5, p + 8)))

(***************************************************************************)
(* The inputs: CXBIN byte streams, built field by field from bounded       *)
(* sets of field values, well-formed and damaged.                          *)
(***************************************************************************)
Fill(n, seed) == [i \in 1..n |-> (seed + 3 * i) % 256]

RECURSIVE Concat(_)
Concat(ss) == IF ss = <<>> THEN <<>> ELSE Head(ss) \o Concat(Tail(ss))

\* bytes 0-3 header code, bytes 4-15 reserved
FileHeader(head) == PackInt32LE(head) \o [i \in 1..12 |-> 0]

Defects == {"ok", "corrupt", "long", "short", "neg"}

\* the compressed payload of raw; corrupt: its checksum is wrong
Payload(raw, defect) ==
    IF defect = "corrupt" THEN <<ZlibHeader>> \o raw \o <<Checksum(raw) + 1>>
    ELSE ZlibCompress(raw)

\* the declared compressed length of a payload of n bytes
DeclaredLength(n, defect) ==
    CASE defect = "long" -> n + 1
      [] defect = "short" -> n - 1
      [] defect = "neg" -> -1
      [] OTHER -> n

LengthPrefixed(comp, defect) == PackInt32LE(DeclaredLength(Len(comp), defect)) \o comp

\* [compressedLen][compressedBytes...]; a defect damages the payload
\* (corrupt) or the declared length (long, short, neg)
CompressedField(raw, defect) == LengthPrefixed(Payload(raw, defect), defect)

\* [totalSize][vertCount][faceCount][compressedLen][compressedBytes...] with a
\* payload of rows 12-byte rows, whatever the declared counts
GeometryBlock(V, F, rows, defect) ==
    PackInt32LE(12 * rows) \o PackInt32LE(V) \o PackInt32LE(F)
        \o CompressedField(Fill(12 * rows, 16), defect)

Counts == -1..MaxCount
UVCounts == -1..MaxUV
MatSizes == {-1, 0, 2}
MapSizes == {-1, 0, 3}
MapDims == { <<1, 1>>, <<1, 2>>, <<0, 2>>, <<2, -1>>, <<-1, -2>> }
NameLens == {0, 2}
Cuts == {0, 2, 5}
HeadCodes == {0, 2}

\* what may follow the geometry block when no material block does: nothing, a
\* partial version field, a version other than 1 (with or without more bytes),
\* or version 1 and the end of the stream
Tails ==
    { <<>>, <<1>>, <<0, 0, 0>>, PackInt32LE(0), PackInt32LE(0) \o <<7, 7>>,
      PackInt32LE(2) \o <<7, 7>>, PackInt32LE(-1), PackInt32LE(1) }

\* the sequences of at most n elements of S
RECURSIVE SeqsUpTo(_, _)
SeqsUpTo(S, n) ==
    IF n = 0 THEN {<<>>}
    ELSE SeqsUpTo(S, n - 1)
            \cup {Append(q, x) : q \in {r \in SeqsUpTo(S, n - 1) : Len(r) = n - 1}, x \in S}

\* the counts that announce the list q: its length, or -1 for the empty one
Declared(q) == IF q = <<>> THEN {-1, 0} ELSE {Len(q)}

\* a declared count with the list it announces: <<-1, <<>>>>, <<0, <<>>>>, <<1, <<x>>>>, ...
Announced(S, n) == UNION { { <<c, q>> : c \in Declared(q) } : q \in SeqsUpTo(S, n) }

NameBytes(n) == [i \in 1..n |-> IF i = n THEN 0 ELSE 64 + i]

Positive(n) == IF n > 0 THEN n ELSE 0

\* UVs, face UVs, texture ids, material blobs and the name, as both layouts
\* store them
ArraysPayload(U, FU, TI, sizes, N) ==
    Fill(8 * Positive(U), 40) \o Fill(12 * Positive(FU), 80) \o Fill(4 * Positive(TI), 120)
        \o Concat([i \in 1..Len(sizes) |-> Fill(Positive(sizes[i]), 160 + 16 * i)])
        \o NameBytes(Positive(N))

\* per map: [size][bytes]
NewMapsPayload(maps) ==
    Concat([i \in 1..Len(maps) |->
              PackInt32LE(maps[i]) \o Fill(Positive(maps[i]), 200 + 16 * i)])

\* per map: [width][height][rgba8888 bytes]
OldMapsPayload(maps) ==
    Concat([i \in 1..Len(maps) |->
              PackInt32LE(maps[i][1]) \o PackInt32LE(maps[i][2])
                \o Fill(IF maps[i][1] > 0 /\ maps[i][2] > 0
                        THEN maps[i][1] * maps[i][2] * 4 ELSE 0, 200 + 16 * i)])

DropLast(s, n) == SubSeq(s, 1, Len(s) - Min(n, Len(s)))

\* [totalSize][counts...][matSizes...][mtlNameLen][mapCount][compressedLen]
\* [compressedBytes...] around the decompressed payload raw; Toff is added to
\* the declared total size
BlockAround(raw, counts, sizes, N, K, Toff, defect) ==
    PackInt32LE(Len(raw) + Toff)
        \o Concat([i \in 1..Len(counts) |-> PackInt32LE(counts[i])])
        \o Concat([i \in 1..Len(sizes) |-> PackInt32LE(sizes[i])])
        \o PackInt32LE(N) \o PackInt32LE(K) \o CompressedField(raw, defect)

\* a new material block whose payload has lost its last cut bytes
MaterialBlock(U, FU, TI, M, sizes, N, K, maps, cut, Toff, defect) ==
    BlockAround(DropLast(ArraysPayload(U, FU, TI, sizes, N) \o NewMapsPayload(maps), cut),
                <<U, FU, TI, M>>, sizes, N, K, Toff, defect)

\* a legacy combined block whose payload has lost its last cut bytes
LegacyBlock(V, F, U, FU, TI, M, sizes, N, K, maps, cut, Toff, defect) ==
    BlockAround(DropLast(Fill(12 * Positive(V), 16) \o Fill(12 * Positive(F), 28)
                            \o ArraysPayload(U, FU, TI, sizes, N)
                            \o OldMapsPayload(maps), cut),
                <<V, F, U, FU, TI, M>>, sizes, N, K, Toff, defect)

\* versioned files that end with, or shortly after, the geometry block
GeometryInputs ==
    { FileHeader(h) \o GeometryBlock(V, F, rows, d) \o t :
        h \in HeadCodes, V \in Counts, F \in Counts, rows \in 0..(2 * MaxCount),
        d \in Defects, t \in Tails }

VersionedPrefix == FileHeader(0) \o GeometryBlock(1, 1, 2, "ok") \o PackInt32LE(1)

\* version 1 files: the arrays and the name vary, one material, one texture map
MaterialInputs ==
    { VersionedPrefix
        \o MaterialBlock(U, FU, TI, 1, <<2>>, N, 1, <<3>>, cut, 0, "ok") :
        U \in UVCounts, FU \in UVCounts, TI \in 0..MaxUV,
        N \in NameLens, cut \in Cuts }

\* version 1 files: the materials and the name vary, with or without UVs
MaterialListInputs ==
    { VersionedPrefix
        \o MaterialBlock(U, U, 1, ms[1], ms[2], N, 1, <<3>>, cut, 0, "ok") :
        U \in 0..1, ms \in Announced(MatSizes, MaxMats), N \in NameLens,
        cut \in Cuts }

\* version 1 files: the texture maps vary
MapInputs ==
    { VersionedPrefix
        \o MaterialBlock(1, 1, 1, 1, <<2>>, 2, km[1], km[2], cut, 0, "ok") :
        km \in Announced(MapSizes, MaxMaps), cut \in Cuts }

DamageKinds == ({0} \X (Defects \ {"ok"})) \cup {<<1, "ok">>}

\* version 1 files with a damaged material block header or payload
DamagedInputs ==
    { VersionedPrefix
        \o MaterialBlock(1, 1, 1, 1, <<2>>, 2, 1, <<3>>, 0, df[1], df[2]) :
        df \in DamageKinds }

CanonicalVersioned ==
    VersionedPrefix \o MaterialBlock(1, 1, 1, 1, <<2>>, 2, 1, <<3>>, 0, 0, "ok")

\* legacy files: the geometry counts vary
LegacyGeometryInputs ==
    { FileHeader(1)
        \o LegacyBlock(V, F, 1, 1, 1, 1, <<2>>, 2, 1, <<<<1, 1>>>>, cut, 0, "ok") :
        V \in Counts, F \in Counts, cut \in Cuts }

\* legacy files: the arrays and the name vary, one material
LegacyMaterialInputs ==
    { FileHeader(1)
        \o LegacyBlock(1, 1, U, FU, TI, 1, <<2>>, N, 1, <<<<1, 1>>>>, cut, 0, "ok") :
        U \in UVCounts, FU \in UVCounts, TI \in 0..MaxUV,
        N \in NameLens, cut \in Cuts }

\* legacy files: the materials and the name vary, with or without UVs
LegacyMaterialListInputs ==
    { FileHeader(1)
        \o LegacyBlock(1, 1, U, U, 1, ms[1], ms[2], N, 1, <<<<1, 1>>>>, cut, 0, "ok") :
        U \in 0..1, ms \in Announced(MatSizes, MaxMats), N \in NameLens,
        cut \in Cuts }

\* legacy files: the texture maps vary
LegacyMapInputs ==
    { FileHeader(1)
        \o LegacyBlock(1, 1, 1, 1, 1, 1, <<2>>, 2, km[1], km[2], cut, 0, "ok") :
        km \in Announced(MapDims, MaxMaps), cut \in Cuts \cup {9} }

\* legacy files with a damaged block header or payload
LegacyDamagedInputs ==
    { FileHeader(1)
        \o LegacyBlock(1, 1, 1, 1, 1, 1, <<2>>, 2, 1, <<<<1, 1>>>>, 0, df[1], df[2]) :
        df \in DamageKinds }

CanonicalLegacy ==
    FileHeader(1)
        \o LegacyBlock(1, 1, 1, 1, 1, 1, <<2>>, 2, 1, <<<<1, 1>>>>, 0, 0, "ok")

\* version 1 files and legacy files whose payload, without texture maps, has
\* lost its last cut bytes, for every cut: every slice is cut short in turn
TruncatedInputs ==
    { VersionedPrefix \o MaterialBlock(1, 1, 1, 2, <<2, 2>>, 2, 0, <<>>, cut, 0, "ok") :
        cut \in 1..30 }
        \cup
    { FileHeader(1)
        \o LegacyBlock(1, 1, 1, 1, 1, 2, <<2, 2>>, 2, 0, <<>>, cut, 0, "ok") :
        cut \in 1..54 }

\* a legacy file with one 4 x 2 texture map of 32 bytes and nothing else
ExampleLegacy ==
    FileHeader(1) \o LegacyBlock(0, 0, 0, 0, 0, 0, <<>>, 0, 1, <<<<4, 2>>>>, 0, 0, "ok")

\* files whose texture bodies begin with the PNG signature, whole or clamped:
\* new layout [size][bytes] with size declared, legacy layout
\* [width][height][bytes] with a body of the signature and extra more bytes
SignatureInputs ==
    { VersionedPrefix
        \o BlockAround(PackInt32LE(size) \o PNG_SIGNATURE \o <<1, 2>>,
                       <<0, 0, 0, 0>>, <<>>, 0, 1, 0, "ok") :
        size \in {4, 10, 12} }
        \cup
    { FileHeader(1)
        \o BlockAround(PackInt32LE(dims[1]) \o PackInt32LE(dims[2]) \o PNG_SIGNATURE
                            \o Fill(extra, 1),
                       <<0, 0, 0, 0, 0, 0>>, <<>>, 0, 1, 0, "ok") :
        dims \in {<<1, 2>>, <<2, 2>>, <<3, 1>>}, extra \in {0, 3} }

\* every prefix of a well-formed file: a short read at every point
Prefixes(s) == { SubSeq(s, 1, n) : n \in 0..Len(s) }

Inputs ==
    GeometryInputs \cup MaterialInputs \cup MaterialListInputs \cup MapInputs
        \cup DamagedInputs \cup LegacyGeometryInputs \cup LegacyMaterialInputs
        \cup LegacyMaterialListInputs \cup LegacyMapInputs
        \cup LegacyDamagedInputs \cup SignatureInputs \cup TruncatedInputs \cup {ExampleLegacy}
        \cup Prefixes(CanonicalVersioned) \cup Prefixes(CanonicalLegacy)

(***************************************************************************)
(* The state of one load_cxbin call.                                       *)
(***************************************************************************)
VARIABLES
    data,          \* the bytes of the source
    fp_is_path,    \* fp is a path (load_cxbin opens the file) or an open stream
    pos,           \* the stream offset of f
    close_after,   \* load_cxbin's local
    f_closed,      \* f has been closed
    pc,            \* the position in the code
    head_code,     \* load_cxbin's local (None until read)
    mesh_hdr,      \* _parse_mesh_block's header fields at its exit (None: not read)
    mesh_raw,      \* _parse_mesh_block's raw at its exit (None: not decompressed)
    vertices,      \* local of load_cxbin (versioned) or of the legacy parser
    faces,
    meta,          \* load_cxbin's local (None until the mesh block is parsed)
    version,       \* load_cxbin's local (None until read)
    mats,          \* load_cxbin's local (None or the parser's result)
    hdr,           \* the material parser's header fields
    raw,           \* the material parser's decompressed buffer
    ptr,           \* the material parser's offset into raw
    pmats,         \* the material parser's local mats
    idx,           \* the index of the running loop of the material parser
    calls,         \* the parsers called so far, in order
    result,        \* what load_cxbin returned or raised
    previous,      \* the buffer and the outcome of the first call that ended
    ncalls,        \* the number of calls of load_cxbin so far, this one included
    args,          \* the command line of the converter, None when it does not run
    found,         \* the .cxbin files gathered for the input path: their bytes
    cpc,           \* the position of the converter's main()
    stdout,        \* what the converter has written to stdout, in order
    results        \* main's list of the entries returned by convert_one

vars == << data, fp_is_path, pos, close_after, f_closed, pc, head_code, mesh_hdr,
           mesh_raw, vertices, faces, meta, version, mats, hdr, raw, ptr, pmats,
           idx, calls, result, previous, ncalls, args, found, cpc, stdout, results >>

\* the header fields of a material parser before they are read; vert_num and
\* face_num are fields of the legacy header only
NoHeader ==
    [total_num |-> 0, vert_num |-> 0, face_num |-> 0, uv_num |-> 0,
     face_uv_num |-> 0, texture_id_num |-> 0, material_num |-> 0,
     material_sizes |-> <<>>, mtl_name_len |-> 0, map_type_count |-> 0,
     compress_num |-> 0]

\* the first call of load_cxbin on one of the buffers of inputs
Start(inputs) ==
    /\ data \in inputs
    /\ fp_is_path \in BOOLEAN
    /\ pos = 0
    /\ close_after = FALSE
    /\ f_closed = FALSE
    /\ pc = "start"
    /\ head_code = None
    /\ mesh_hdr = None
    /\ mesh_raw = None
    /\ vertices = <<>>
    /\ faces = <<>>
    /\ meta = None
    /\ version = None
    /\ mats = None
    /\ hdr = NoHeader
    /\ raw = <<>>
    /\ ptr = 0
    /\ pmats = CxbinMaterials
    /\ idx = 0
    /\ calls = <<>>
    /\ result = [kind |-> "running"]
    /\ previous = None
    /\ ncalls = 1
    /\ args = None
    /\ found = <<>>
    /\ cpc = "off"
    /\ stdout = <<>>
    /\ results = <<>>

Init == Start(Inputs)

\* the state of the converter's main()
cli == << args, found, cpc, stdout, results >>

\* what outlives a call of load_cxbin: nothing in the module, so only the
\* record kept here of the calls made, and the state of the caller
history == << previous, ncalls, cli >>

\* the locals of load_cxbin and of the mesh parser
loader == << head_code, mesh_hdr, mesh_raw, vertices, faces, meta, version, mats >>
\* the locals of the material parsers
parser == << hdr, raw, ptr, pmats, idx >>
source == << data, fp_is_path, close_after, f_closed >>

\* an exception leaves load_cxbin through its finally clause
Raise(err) ==
    /\ result' = [kind |-> "error", err |-> err]
    /\ pc' = "finally"

\* a return leaves load_cxbin through its finally clause
Return(doc) ==
    /\ result' = [kind |-> "doc", doc |-> doc]
    /\ pc' = "finally"

\* load_cxbin: the source is opened when fp is a path
Open ==
    /\ pc = "start"
    /\ close_after' = fp_is_path
    /\ pc' = "header"
    /\ UNCHANGED << data, fp_is_path, f_closed, pos, loader, parser, calls, result >>
    /\ UNCHANGED history

\* HeaderSkipped with the legacy path taken for every header code but 0
HeaderSkipped_LegacyUnlessZero(code, r) ==
    /\ head_code' = Some(code)
    /\ pos' = r.pos
    /\ IF ~r.ok THEN Raise(r.err)
       ELSE /\ pc' = IF code = 0 THEN "mesh" ELSE "old_header"
            /\ UNCHANGED result

\* HeaderSkipped with the first reserved byte read as a layout flag
HeaderSkipped_ReservedFlag(code, r) ==
    /\ head_code' = Some(code)
    /\ pos' = r.pos
    /\ IF ~r.ok THEN Raise(r.err)
       ELSE /\ pc' = IF code # 1 /\ r.bytes[1] = 0 THEN "mesh" ELSE "old_header"
            /\ UNCHANGED result

\* given r = the 12 skipped bytes: the dispatch on head_code
HeaderSkipped(code, r) ==
    /\ head_code' = Some(code)
    /\ pos' = r.pos
    /\ IF ~r.ok THEN Raise(r.err)
       ELSE /\ pc' = IF code # 1 THEN "mesh" ELSE "old_header"
            /\ UNCHANGED result

\* given h = the header code read
HeaderRead(h) ==
    IF ~h.ok THEN Raise(h.err) /\ pos' = h.pos /\ UNCHANGED head_code
    ELSE HeaderSkipped(h.val, ReadExact(data, h.pos, 12))

\* load_cxbin: head_code, the 12 skipped bytes and the dispatch on head_code
ReadHeader ==
    /\ pc = "header"
    /\ HeaderRead(ReadIntLE(data, pos))
    /\ UNCHANGED << source, mesh_hdr, mesh_raw, vertices, faces, meta, version,
                    mats, parser, calls >>
    /\ UNCHANGED history

\* given m = _parse_mesh_block(f)
MeshParsed(m) ==
    /\ pos' = m.pos
    /\ mesh_hdr' = m.hdr
    /\ mesh_raw' = m.raw
    /\ IF ~m.ok
       THEN Raise(m.err) /\ UNCHANGED << vertices, faces, meta >>
       ELSE /\ vertices' = m.vertices
            /\ faces' = m.faces
            /\ meta' = m.meta
            /\ pc' = "version"
            /\ UNCHANGED result

\* load_cxbin, versioned path: vertices, faces, meta = _parse_mesh_block(f)
ParseMeshBlock ==
    /\ pc = "mesh"
    /\ calls' = Append(calls, "_parse_mesh_block")
    /\ MeshParsed(parse_mesh_block(data, pos))
    /\ UNCHANGED << source, head_code, version, mats, parser >>
    /\ UNCHANGED history

\* the geometry-only document returned when the version read hits the end
GeometryOnlyMesh(v, f, m) ==
    CxbinMesh(v, f, None, None, None, None,
              Some(m[1].compressed_bytes), Some(m[1].uncompressed_bytes))

\* VersionRead with the material parser run for every version but 0
VersionRead_MaterialUnlessZero(v) ==
    /\ pos' = v.pos
    /\ IF ~v.ok
       THEN Return(GeometryOnlyMesh(vertices, faces, meta)) /\ UNCHANGED version
       ELSE /\ version' = Some(v.val)
            /\ pc' = IF v.val # 0 THEN "new_header" ELSE "assemble"
            /\ UNCHANGED result

\* VersionRead with the end of the stream at the version field raised
VersionRead_EofRaises(v) ==
    /\ pos' = v.pos
    /\ IF ~v.ok
       THEN Raise(v.err) /\ UNCHANGED version
       ELSE /\ version' = Some(v.val)
            /\ pc' = IF v.val = 1 THEN "new_header" ELSE "assemble"
            /\ UNCHANGED result

\* VersionRead with a version field of 1 to 3 bytes raised
VersionRead_PartialRaises(v) ==
    /\ pos' = v.pos
    /\ IF ~v.ok
       THEN /\ IF v.pos > pos THEN Raise(v.err)
               ELSE Return(GeometryOnlyMesh(vertices, faces, meta))
            /\ UNCHANGED version
       ELSE /\ version' = Some(v.val)
            /\ pc' = IF v.val = 1 THEN "new_header" ELSE "assemble"
            /\ UNCHANGED result

\* given v = the version read: the dispatch on version
VersionRead(v) ==
    /\ pos' = v.pos
    /\ IF ~v.ok
       THEN Return(GeometryOnlyMesh(vertices, faces, meta)) /\ UNCHANGED version
       ELSE /\ version' = Some(v.val)
            /\ pc' = IF v.val = 1 THEN "new_header" ELSE "assemble"
            /\ UNCHANGED result

\* load_cxbin: the version read and the dispatch on version
ReadVersion ==
    /\ pc = "version"
    /\ VersionRead(ReadIntLE(data, pos))
    /\ UNCHANGED << source, head_code, mesh_hdr, mesh_raw, vertices, faces, meta,
                    mats, parser, calls >>
    /\ UNCHANGED history

\* getattr(mats, attr, None) if mats else None
InternalOf(ms, attr) == IF ms # None THEN ms[1][attr] ELSE None

\* VersionedMesh with the two size counters exchanged
VersionedMesh_CountersExchanged(v, f, m, ms, ver) ==
    CxbinMesh(v, f, InternalOf(ms, "uvs_internal"), InternalOf(ms, "face_uvs_internal"),
              ms, ver, Some(m[1].uncompressed_bytes), Some(m[1].compressed_bytes))

\* VersionedMesh without the size counters
VersionedMesh_NoCounters(v, f, m, ms, ver) ==
    CxbinMesh(v, f, InternalOf(ms, "uvs_internal"), InternalOf(ms, "face_uvs_internal"),
              ms, ver, None, None)

\* the document of the versioned path once the version is read
VersionedMesh(v, f, m, ms, ver) ==
    CxbinMesh(v, f, InternalOf(ms, "uvs_internal"), InternalOf(ms, "face_uvs_internal"),
              ms, ver, Some(m[1].compressed_bytes), Some(m[1].uncompressed_bytes))

\* load_cxbin, versioned path: the UVs are mapped to the top level and the
\* document is returned
AssembleVersioned ==
    /\ pc = "assemble"
    /\ Return(VersionedMesh(vertices, faces, meta, mats, version))
    /\ UNCHANGED << source, pos, loader, parser, calls >>
    /\ UNCHANGED history

\* the document of the legacy path
LegacyMesh(v, f, ms) ==
    CxbinMesh(v, f, InternalOf(ms, "uvs_internal"), InternalOf(ms, "face_uvs_internal"),
              ms, Some(1), None, None)

\* load_cxbin, legacy path: the document is returned
AssembleLegacy ==
    /\ pc = "assemble_legacy"
    /\ Return(LegacyMesh(vertices, faces, mats))
    /\ UNCHANGED << source, pos, loader, parser, calls >>
    /\ UNCHANGED history

\* Finally with the close on the return path only, not in a finally clause
Finally_OnReturn ==
    /\ pc = "finally"
    /\ f_closed' = (close_after /\ result.kind = "doc")
    /\ pc' = "done"
    /\ UNCHANGED << data, fp_is_path, close_after, pos, loader, parser, calls, result >>
    /\ UNCHANGED history

\* load_cxbin: finally, the source is closed if load_cxbin opened it
Finally ==
    /\ pc = "finally"
    /\ f_closed' = close_after
    /\ pc' = "done"
    /\ UNCHANGED << data, fp_is_path, close_after, pos, loader, parser, calls, result >>
    /\ UNCHANGED history

(***************************************************************************)
(* The steps both material parsers share: their code is the same, line for *)
(* line.  next is the position that follows the step.                       *)
(***************************************************************************)
\* a step whose count or length is not positive takes nothing
Skip(next) == pc' = next /\ UNCHANGED << ptr, pmats, result >>

\* given t = take(...) and a = the array made of the chunk: mats.<attr> = a
StoreArray(attr, t, a, next) ==
    IF ~t.ok THEN Raise(t.err) /\ UNCHANGED << ptr, pmats >>
    ELSE IF ~a.ok THEN Raise(a.err) /\ ptr' = t.ptr /\ UNCHANGED pmats
    ELSE /\ ptr' = t.ptr
         /\ pmats' = [pmats EXCEPT ![attr] = Some(a.arr)]
         /\ pc' = next
         /\ UNCHANGED result

\* np.frombuffer(buf, dtype=np.int32): a flat array
FlatInt32Array(buf) ==
    [ok |-> Len(buf) % 4 = 0, err |-> "ValueError", arr |-> AsInt32(FromBuffer(buf)).elems]

\* if uv_num > 0: take(uv_num * 2 * 4), kept as _uvs_internal
UVsStep(next) ==
    /\ IF hdr.uv_num > 0
       THEN StoreArray("uvs_internal", take(raw, ptr, hdr.uv_num * 2 * 4),
                Float32Array(take(raw, ptr, hdr.uv_num * 2 * 4).chunk, hdr.uv_num, 2),
                next)
       ELSE Skip(next)
    /\ UNCHANGED << source, pos, loader, hdr, raw, idx, calls >>

\* if face_uv_num > 0: take(face_uv_num * 3 * 4), kept as _face_uvs_internal
FaceUVsStep(next) ==
    /\ IF hdr.face_uv_num > 0
       THEN StoreArray("face_uvs_internal", take(raw, ptr, hdr.face_uv_num * 3 * 4),
                Int32Array(take(raw, ptr, hdr.face_uv_num * 3 * 4).chunk,
                           hdr.face_uv_num, 3),
                next)
       ELSE Skip(next)
    /\ UNCHANGED << source, pos, loader, hdr, raw, idx, calls >>

\* if texture_id_num > 0: take(texture_id_num * 4), a flat int32 array
TextureIdsStep(next) ==
    /\ IF hdr.texture_id_num > 0
       THEN StoreArray("texture_ids", take(raw, ptr, hdr.texture_id_num * 4),
                FlatInt32Array(take(raw, ptr, hdr.texture_id_num * 4).chunk), next)
       ELSE Skip(next)
    /\ UNCHANGED << source, pos, loader, hdr, raw, idx, calls >>

\* AppendBlock with the blob put in front of the list
AppendBlock_InFront(t) ==
    IF ~t.ok THEN Raise(t.err) /\ UNCHANGED << ptr, pmats, idx >>
    ELSE /\ ptr' = t.ptr
         /\ pmats' = [pmats EXCEPT !.material_blocks = <<t.chunk>> \o @]
         /\ idx' = idx + 1
         /\ UNCHANGED << pc, result >>

\* given t = take(size) if size > 0 else b"": material_blocks.append(t)
AppendBlock(t) ==
    IF ~t.ok THEN Raise(t.err) /\ UNCHANGED << ptr, pmats, idx >>
    ELSE /\ ptr' = t.ptr
         /\ pmats' = [pmats EXCEPT !.material_blocks = Append(@, t.chunk)]
         /\ idx' = idx + 1
         /\ UNCHANGED << pc, result >>

\* take(size) if size > 0 else b""
TakeIfPositive(buf, p, size) == IF size > 0 THEN take(buf, p, size) ELSE NothingTaken(p)

\* for size in material_sizes: one iteration, or the end of the loop
MaterialStep(next) ==
    /\ IF idx < Len(hdr.material_sizes)
       THEN AppendBlock(TakeIfPositive(raw, ptr, hdr.material_sizes[idx + 1]))
       ELSE pc' = next /\ idx' = 0 /\ UNCHANGED << ptr, pmats, result >>
    /\ UNCHANGED << source, pos, loader, hdr, raw, calls >>

\* given t = take(mtl_name_len): the name, cut at the first NUL and decoded
StoreName(t, next) ==
    IF ~t.ok THEN Raise(t.err) /\ UNCHANGED << ptr, pmats >>
    ELSE /\ ptr' = t.ptr
         /\ pmats' = [pmats EXCEPT !.material_name =
                        Some(DecodeUtf8Replace(SplitAtNul(t.chunk)))]
         /\ pc' = next
         /\ UNCHANGED result

\* if mtl_name_len > 0: take(mtl_name_len)
NameStep(next) ==
    /\ IF hdr.mtl_name_len > 0
       THEN StoreName(take(raw, ptr, hdr.mtl_name_len), next)
       ELSE Skip(next)
    /\ UNCHANGED << source, pos, loader, hdr, raw, idx, calls >>

\* given x = the texture map read: textures.append(x.entry)
AppendTexture(x) ==
    IF ~x.ok THEN Raise(x.err) /\ UNCHANGED << ptr, pmats, idx, mats >>
    ELSE /\ ptr' = x.ptr
         /\ pmats' = [pmats EXCEPT !.textures = Append(@, x.entry)]
         /\ idx' = idx + 1
         /\ UNCHANGED << pc, result, mats >>

\* return mats: the parser's result becomes load_cxbin's mats
ReturnMats(next) ==
    /\ mats' = Some(pmats)
    /\ pc' = next
    /\ UNCHANGED << ptr, pmats, idx, result >>

\* given b = the header and payload read: the parser's locals
BlockRead(b, first) ==
    /\ pos' = b.pos
    /\ IF ~b.ok
       THEN Raise(b.err) /\ UNCHANGED parser
       ELSE /\ hdr' = [NoHeader EXCEPT
                         !.material_sizes = b.material_sizes,
                         !.mtl_name_len = b.mtl_name_len,
                         !.map_type_count = b.map_type_count,
                         !.compress_num = b.compress_num,
                         !.total_num = b.lead[1],
                         !.material_num = b.lead[Len(b.lead)],
                         !.texture_id_num = b.lead[Len(b.lead) - 1],
                         !.face_uv_num = b.lead[Len(b.lead) - 2],
                         !.uv_num = b.lead[Len(b.lead) - 3],
                         !.face_num = IF Len(b.lead) = 7 THEN b.lead[3] ELSE 0,
                         !.vert_num = IF Len(b.lead) = 7 THEN b.lead[2] ELSE 0]
            /\ raw' = b.raw
            /\ ptr' = 0
            /\ pmats' = CxbinMaterials
            /\ idx' = 0
            /\ pc' = first
            /\ UNCHANGED result

(***************************************************************************)
(* _parse_material_block_v1_new                                            *)
(***************************************************************************)
\* the header, the compressed payload and its decompression against total_num
NewHeader ==
    /\ pc = "new_header"
    /\ calls' = Append(calls, "_parse_material_block_v1_new")
    /\ BlockRead(ReadBlockHeader(data, pos, 5), "new_uvs")
    /\ UNCHANGED << source, loader >>
    /\ UNCHANGED history

NewUVs == pc = "new_uvs" /\ UVsStep("new_face_uvs")
    /\ UNCHANGED history

NewFaceUVs == pc = "new_face_uvs" /\ FaceUVsStep("new_texture_ids")
    /\ UNCHANGED history

NewTextureIds == pc = "new_texture_ids" /\ TextureIdsStep("new_materials")
    /\ UNCHANGED history

NewMaterial == pc = "new_materials" /\ MaterialStep("new_name")
    /\ UNCHANGED history

NewName == pc = "new_name" /\ NameStep("new_maps")
    /\ UNCHANGED history

\* NewMap without the break: a size prefix that cannot be read raises
NewMap_NoBreak ==
    /\ pc = "new_maps"
    /\ IF idx < Max(0, hdr.map_type_count)
       THEN IF ptr + 4 <= Len(raw)
            THEN AppendTexture(NewTexture(raw, ptr))
            ELSE Raise("ValueError") /\ UNCHANGED << ptr, pmats, idx, mats >>
       ELSE ReturnMats("assemble")
    /\ UNCHANGED << source, pos, head_code, mesh_hdr, mesh_raw, vertices, faces,
                    meta, version, hdr, raw, calls >>
    /\ UNCHANGED history

\* for _ in range(max(0, map_type_count)): one iteration, or the end of the
\* loop (exhausted, or left by break) and the return of mats
NewMap ==
    /\ pc = "new_maps"
    /\ IF idx < Max(0, hdr.map_type_count) /\ ptr + 4 <= Len(raw)
       THEN AppendTexture(NewTexture(raw, ptr))
       ELSE ReturnMats("assemble")
    /\ UNCHANGED << source, pos, head_code, mesh_hdr, mesh_raw, vertices, faces,
                    meta, version, hdr, raw, calls >>
    /\ UNCHANGED history

(***************************************************************************)
(* _parse_material_block_v1_old                                            *)
(***************************************************************************)
\* the header, the compressed payload and its decompression against total_num
OldHeader ==
    /\ pc = "old_header"
    /\ calls' = Append(calls, "_parse_material_block_v1_old")
    /\ BlockRead(ReadBlockHeader(data, pos, 7), "old_vertices")
    /\ UNCHANGED << source, loader >>
    /\ UNCHANGED history

\* given t = take(...) and a = the array made of the chunk
StoreGeometry(t, a, next) ==
    IF ~t.ok THEN Raise(t.err) /\ UNCHANGED << ptr, vertices, faces >>
    ELSE IF ~a.ok THEN Raise(a.err) /\ ptr' = t.ptr /\ UNCHANGED << vertices, faces >>
    ELSE /\ ptr' = t.ptr
         /\ IF next = "old_faces"
            THEN vertices' = a.arr /\ UNCHANGED faces
            ELSE faces' = a.arr /\ UNCHANGED vertices
         /\ pc' = next
         /\ UNCHANGED result

\* np.zeros((0, 3), ...)
EmptyArray == [ok |-> TRUE, err |-> "", arr |-> <<>>]

\* vertices: take(vert_num * 3 * 4) if vert_num > 0, else an empty array
OldVertices ==
    /\ pc = "old_vertices"
    /\ IF hdr.vert_num > 0
       THEN StoreGeometry(take(raw, ptr, hdr.vert_num * 3 * 4),
                Float32Array(take(raw, ptr, hdr.vert_num * 3 * 4).chunk, hdr.vert_num, 3),
                "old_faces")
       ELSE StoreGeometry(NothingTaken(ptr), EmptyArray, "old_faces")
    /\ UNCHANGED << source, pos, head_code, mesh_hdr, mesh_raw, meta, version, mats,
                    hdr, raw, pmats, idx, calls >>
    /\ UNCHANGED history

\* faces: take(face_num * 3 * 4) if face_num > 0, else an empty array
OldFaces ==
    /\ pc = "old_faces"
    /\ IF hdr.face_num > 0
       THEN StoreGeometry(take(raw, ptr, hdr.face_num * 3 * 4),
                Int32Array(take(raw, ptr, hdr.face_num * 3 * 4).chunk, hdr.face_num, 3),
                "old_uvs")
       ELSE StoreGeometry(NothingTaken(ptr), EmptyArray, "old_uvs")
    /\ UNCHANGED << source, pos, head_code, mesh_hdr, mesh_raw, meta, version, mats,
                    hdr, raw, pmats, idx, calls >>
    /\ UNCHANGED history

OldUVs == pc = "old_uvs" /\ UVsStep("old_face_uvs")
    /\ UNCHANGED history

OldFaceUVs == pc = "old_face_uvs" /\ FaceUVsStep("old_texture_ids")
    /\ UNCHANGED history

OldTextureIds == pc = "old_texture_ids" /\ TextureIdsStep("old_materials")
    /\ UNCHANGED history

OldMaterial == pc = "old_materials" /\ MaterialStep("old_name")
    /\ UNCHANGED history

OldName == pc = "old_name" /\ NameStep("old_maps")
    /\ UNCHANGED history

\* for _ in range(max(0, map_type_count)): one iteration, or the end of the
\* loop (exhausted, or left by break) and the return of mats, vertices, faces
OldMap ==
    /\ pc = "old_maps"
    /\ IF idx < Max(0, hdr.map_type_count) /\ ptr + 8 <= Len(raw)
       THEN AppendTexture(OldTexture(raw, ptr))
       ELSE ReturnMats("assemble_legacy")
    /\ UNCHANGED << source, pos, head_code, mesh_hdr, mesh_raw, vertices, faces,
                    meta, version, hdr, raw, calls >>
    /\ UNCHANGED history

Next ==
    \/ Open
    \/ ReadHeader
    \/ ParseMeshBlock
    \/ ReadVersion
    \/ NewHeader
    \/ NewUVs
    \/ NewFaceUVs
    \/ NewTextureIds
    \/ NewMaterial
    \/ NewName
    \/ NewMap
    \/ AssembleVersioned
    \/ OldHeader
    \/ OldVertices
    \/ OldFaces
    \/ OldUVs
    \/ OldFaceUVs
    \/ OldTextureIds
    \/ OldMaterial
    \/ OldName
    \/ OldMap
    \/ AssembleLegacy
    \/ Finally

Spec == Init /\ [][Next]_vars

(***************************************************************************)
(* Several calls of load_cxbin, one after the other.  Each call gets its   *)
(* own source over the buffer it is given (a path is opened anew, a stream *)
(* is a fresh one) and its own locals: the module keeps no state.          *)
(***************************************************************************)
MaxCalls == 3

\* the buffer s with the bytes b written over its reserved bytes 4..15
WithReserved(s, b) == [i \in 1..Len(s) |-> IF i \in 5..16 THEN b[i - 4] ELSE s[i]]

\* contents of the 12 reserved bytes
ReservedBytes ==
    { [i \in 1..12 |-> 0], [i \in 1..12 |-> 255], [i \in 1..12 |-> i],
      [i \in 1..12 |-> IF i = 1 THEN 1 ELSE 0] }

\* whole files and files cut inside their header, with any reserved bytes
ReservedInputs ==
    { WithReserved(s, b) :
        s \in { CanonicalVersioned, CanonicalLegacy, SubSeq(CanonicalVersioned, 1, 15),
                SubSeq(CanonicalLegacy, 1, 9), SubSeq(CanonicalLegacy, 1, 3) },
        b \in ReservedBytes }

\* the buffers of the repeated calls
AgainInputs ==
    { CanonicalVersioned, CanonicalLegacy, ExampleLegacy }
        \cup DamagedInputs \cup SignatureInputs \cup ReservedInputs

\* CallAgain with the stream of the previous call, left where that call
\* stopped reading
CallAgain_SameStream ==
    /\ pc = "done"
    /\ ncalls < MaxCalls
    /\ previous' = IF previous = None
                   THEN Some([data |-> data, result |-> result]) ELSE previous
    /\ ncalls' = ncalls + 1
    /\ data' \in AgainInputs
    /\ fp_is_path' \in BOOLEAN
    /\ pos' = IF fp_is_path' THEN 0 ELSE pos
    /\ close_after' = FALSE
    /\ f_closed' = FALSE
    /\ pc' = "start"
    /\ head_code' = None /\ mesh_hdr' = None /\ mesh_raw' = None
    /\ vertices' = <<>> /\ faces' = <<>> /\ meta' = None
    /\ version' = None /\ mats' = None
    /\ hdr' = NoHeader /\ raw' = <<>> /\ ptr' = 0
    /\ pmats' = CxbinMaterials /\ idx' = 0
    /\ calls' = <<>>
    /\ result' = [kind |-> "running"]
    /\ UNCHANGED cli

\* a call has ended and load_cxbin is called again, on the same buffer or on
\* another one: a new frame, where every local starts as in the first call
CallAgain ==
    /\ pc = "done"
    /\ ncalls < MaxCalls
    /\ previous' = IF previous = None
                   THEN Some([data |-> data, result |-> result]) ELSE previous
    /\ ncalls' = ncalls + 1
    /\ data' \in AgainInputs
    /\ fp_is_path' \in BOOLEAN
    /\ pos' = 0
    /\ close_after' = FALSE
    /\ f_closed' = FALSE
    /\ pc' = "start"
    /\ head_code' = None /\ mesh_hdr' = None /\ mesh_raw' = None
    /\ vertices' = <<>> /\ faces' = <<>> /\ meta' = None
    /\ version' = None /\ mats' = None
    /\ hdr' = NoHeader /\ raw' = <<>> /\ ptr' = 0
    /\ pmats' = CxbinMaterials /\ idx' = 0
    /\ calls' = <<>>
    /\ result' = [kind |-> "running"]
    /\ UNCHANGED cli

InitAgain == Start(AgainInputs)

NextAgain ==
    \/ Next
    \/ CallAgain

SpecAgain == InitAgain /\ [][NextAgain]_vars

(***************************************************************************)
(* The converter: main() of cxbin_converter.py, which gathers the .cxbin   *)
(* files of its input path and calls convert_one on each, and convert_one, *)
(* which calls load_cxbin on the file's path.  stdout is the sequence of   *)
(* what was printed: text, or a JSON object with its content.              *)
(***************************************************************************)
MaxFiles == 2

\* the files a directory may hold: well-formed ones of both layouts and a
\* damaged one, which load_cxbin fails to decode
DamagedFile ==
    VersionedPrefix \o MaterialBlock(1, 1, 1, 1, <<2>>, 2, 1, <<3>>, 0, 0, "corrupt")

CliFiles == { CanonicalVersioned, CanonicalLegacy, DamagedFile }

\* print(text)
Text(what) == [kind |-> "text", what |-> what]

\* print(json.dumps({"results": rs, "error": err})); the error key is absent
\* (None) in the object printed at the end of a batch
Json(rs, err) == [kind |-> "json", results |-> rs, error |-> err]

\* print(x) unless --json
UnlessJson(out, x) == IF args[1].json THEN out ELSE Append(out, x)

\* print(x) with --json, print(y) without
JsonOrText(out, x, y) == Append(out, IF args[1].json THEN x ELSE y)

InitCli ==
    /\ args \in { Some(a) : a \in [json : BOOLEAN, list_formats : BOOLEAN,
                                   input : BOOLEAN] }
    /\ found \in IF args[1].input THEN SeqsUpTo(CliFiles, MaxFiles) ELSE {<<>>}
    /\ cpc = "main"
    /\ stdout = <<>>
    /\ results = <<>>
    /\ data = <<>>
    /\ fp_is_path = TRUE
    /\ pos = 0
    /\ close_after = FALSE
    /\ f_closed = FALSE
    /\ pc = "idle"
    /\ head_code = None /\ mesh_hdr = None /\ mesh_raw = None
    /\ vertices = <<>> /\ faces = <<>> /\ meta = None
    /\ version = None /\ mats = None
    /\ hdr = NoHeader /\ raw = <<>> /\ ptr = 0
    /\ pmats = CxbinMaterials /\ idx = 0
    /\ calls = <<>>
    /\ result = [kind |-> "running"]
    /\ previous = None
    /\ ncalls = 0

\* the variables of a call of load_cxbin and the record of the calls
frame == << data, fp_is_path, pos, close_after, f_closed, pc, loader, parser,
            calls, result, previous, ncalls >>

\* main: args = parser.parse_args(); if not args.json: print(ASCII_HEADER)
PrintHeader ==
    /\ cpc = "main"
    /\ stdout' = UnlessJson(stdout, Text("header"))
    /\ cpc' = "parsed"
    /\ UNCHANGED << frame, args, found, results >>

\* main: if args.list_formats: list_formats(); return
ListFormats ==
    /\ cpc = "parsed"
    /\ args[1].list_formats
    /\ stdout' = Append(stdout, Text("formats"))
    /\ cpc' = "returned"
    /\ UNCHANGED << frame, args, found, results >>

\* main: if not args.input: the help, or the JSON object of the error; return
NoInput ==
    /\ cpc = "parsed"
    /\ ~args[1].list_formats /\ ~args[1].input
    /\ stdout' = JsonOrText(stdout, Json(<<>>, Some("No input provided.")), Text("help"))
    /\ cpc' = "returned"
    /\ UNCHANGED << frame, args, found, results >>

\* main: inputs = _gather_inputs(...); if not inputs: the message; sys.exit(1)
NoFilesFound ==
    /\ cpc = "parsed"
    /\ ~args[1].list_formats /\ args[1].input /\ found = <<>>
    /\ stdout' = JsonOrText(stdout, Json(<<>>, Some("No .cxbin files found.")),
                            Text("no files"))
    /\ cpc' = "exit1"
    /\ UNCHANGED << frame, args, found, results >>

\* main: results = []
BeginBatch ==
    /\ cpc = "parsed"
    /\ ~args[1].list_formats /\ args[1].input /\ found # <<>>
    /\ results' = <<>>
    /\ cpc' = "loop"
    /\ UNCHANGED << frame, args, found, stdout >>

\* main: the next input: the progress line unless --json, and the call of
\* convert_one, whose first statement is load_cxbin(input_path.as_posix())
ConvertOne ==
    /\ cpc = "loop"
    /\ Len(results) < Len(found)
    /\ stdout' = UnlessJson(stdout, Text("converting"))
    /\ cpc' = "convert_one"
    /\ data' = found[Len(results) + 1]
    /\ fp_is_path' = TRUE
    /\ pos' = 0
    /\ close_after' = FALSE
    /\ f_closed' = FALSE
    /\ pc' = "start"
    /\ head_code' = None /\ mesh_hdr' = None /\ mesh_raw' = None
    /\ vertices' = <<>> /\ faces' = <<>> /\ meta' = None
    /\ version' = None /\ mats' = None
    /\ hdr' = NoHeader /\ raw' = <<>> /\ ptr' = 0
    /\ pmats' = CxbinMaterials /\ idx' = 0
    /\ calls' = <<>>
    /\ result' = [kind |-> "running"]
    /\ ncalls' = ncalls + 1
    /\ UNCHANGED << previous, args, found, results >>

\* the entry convert_one returns for input i: success is True and error None
\* when the export went through, success False and error the message of the
\* exception caught otherwise
Entry(i, exported) ==
    [input |-> i, success |-> exported,
     error |-> IF exported THEN None ELSE Some("export failed")]

\* convert_one after load_cxbin, given the outcome of the export: the summary
\* or the error line unless --json, and main's results.append(info)
Converted(exported) ==
    /\ results' = Append(results, Entry(Len(results) + 1, exported))
    /\ stdout' = UnlessJson(stdout, Text(IF exported THEN "exported" ELSE "error"))
    /\ cpc' = "loop"

\* load_cxbin has ended.  What it raised is caught neither by convert_one,
\* whose try starts after the call, nor by main; a document is exported,
\* which goes through or raises inside the try of convert_one
ConvertOneReturns ==
    /\ cpc = "convert_one"
    /\ pc = "done"
    /\ IF result.kind = "error"
       THEN cpc' = "raised" /\ UNCHANGED << stdout, results >>
       ELSE \E exported \in BOOLEAN : Converted(exported)
    /\ UNCHANGED << frame, args, found >>

\* main, after the loop: the JSON object of the results, or the last line
BatchDone ==
    /\ cpc = "loop"
    /\ Len(results) = Len(found)
    /\ stdout' = JsonOrText(stdout, Json(results, None), Text("done"))
    /\ cpc' = "returned"
    /\ UNCHANGED << frame, args, found, results >>

NextCli ==
    \/ PrintHeader
    \/ ListFormats
    \/ NoInput
    \/ NoFilesFound
    \/ BeginBatch
    \/ ConvertOne
    \/ ConvertOneReturns
    \/ BatchDone
    \/ Next

SpecCli == InitCli /\ [][NextCli]_vars


(***************************************************************************)
(* load_cxbin as a function of the stream, for the streams whose decode    *)
(* runs no material parser: what it returns or raises.  Used to compare    *)
(* the decode of one stream with the decode of another.                    *)
(***************************************************************************)
\* given v = the version read
LoadVersion(m, v) ==
    IF ~v.ok
    THEN [kind |-> "doc", doc |-> GeometryOnlyMesh(m.vertices, m.faces, m.meta)]
    ELSE IF v.val = 1 THEN [kind |-> "material"]
    ELSE [kind |-> "doc",
          doc |-> VersionedMesh(m.vertices, m.faces, m.meta, None, Some(v.val))]

\* given m = _parse_mesh_block(f)
LoadMesh(s, m) ==
    IF ~m.ok THEN [kind |-> "error", err |-> m.err]
    ELSE LoadVersion(m, ReadIntLE(s, m.pos))

\* given r = the 12 skipped bytes
LoadSkipped(s, code, r) ==
    IF ~r.ok THEN [kind |-> "error", err |-> r.err]
    ELSE IF code = 1 THEN [kind |-> "legacy"]
    ELSE LoadMesh(s, parse_mesh_block(s, r.pos))

\* given h = the header code read
LoadHeader(s, h) ==
    IF ~h.ok THEN [kind |-> "error", err |-> h.err]
    ELSE LoadSkipped(s, h.val, ReadExact(s, h.pos, 12))

load_cxbin(s) == LoadHeader(s, ReadIntLE(s, 0))

(***************************************************************************)
(* Vocabulary of the properties.                                           *)
(***************************************************************************)
MeshParser == "_parse_mesh_block"
NewParser == "_parse_material_block_v1_new"
OldParser == "_parse_material_block_v1_old"

Called(name) == \E i \in 1..Len(calls) : calls[i] = name

\* the stream offset right after the file header
HeaderBytes == 16

\* the file header is read, and the header code is not / is the legacy sentinel
Versioned == pos >= HeaderBytes /\ head_code # None /\ head_code[1] # 1
Legacy == pos >= HeaderBytes /\ head_code = Some(1)

Returned == result.kind = "doc"
Failed == result.kind = "error"
Exited == pc \in {"finally", "done"}

\* the versioned path parsed its geometry block
GeometryParsed == Versioned /\ meta # None

\* the stream offset right after the geometry block: the file header, the four
\* header fields of the block and its compressed payload
GeometryEnd == HeaderBytes + 16 + meta[1].compressed_bytes

\* the length of an optional array, None counting as no element
LenOpt(a) == IF a = None THEN 0 ELSE Len(a[1])

(***************************************************************************)
(* C1.  Dispatch.  The header code is the first 4 bytes read as a signed   *)
(* little-endian integer.  Header code 1: only the legacy parser runs, and *)
(* a returned document has cxbin_version 1.  Any other header code: the    *)
(* geometry block parser runs first, the new material parser runs only     *)
(* after the geometry was parsed and a version field equal to 1 was read,  *)
(* and the document then has cxbin_version 1 and carries that block's      *)
(* UVs, face UVs and materials; without a material block the document's    *)
(* cxbin_version is None when no version field was read and the version    *)
(* integer read otherwise.                                                 *)
(***************************************************************************)
C1_Dispatch ==
    /\ head_code # None =>
          Len(data) >= 4 /\ head_code[1] = UnpackInt32LE(SubSeq(data, 1, 4))
    /\ pos < HeaderBytes => calls = <<>>
    /\ Legacy => calls \in {<<>>, <<OldParser>>}
    /\ Versioned => calls \in {<<>>, <<MeshParser>>, <<MeshParser, NewParser>>}
    /\ Called(NewParser) => GeometryParsed /\ version = Some(1)
    /\ (Versioned /\ version = Some(1)) => (pc = "new_header" \/ Called(NewParser))
    /\ (Legacy /\ pc # "old_header") => Called(OldParser)

C1_VersionOfDocument ==
    Returned =>
        /\ Legacy => result.doc.cxbin_version = Some(1)
        /\ (Versioned /\ Called(NewParser)) =>
              /\ result.doc.cxbin_version = Some(1)
              /\ result.doc.materials = Some(pmats)
              /\ result.doc.uvs = pmats.uvs_internal
              /\ result.doc.face_uvs = pmats.face_uvs_internal
        /\ (Versioned /\ ~Called(NewParser)) =>
              /\ result.doc.cxbin_version = version
              /\ version # Some(1)
              /\ result.doc.materials = None

C1_DispatchAndVersion == C1_Dispatch /\ C1_VersionOfDocument

\* C1 as claimed: the version of a returned document is one of three tags, one
\* per terminal state: legacy and v1 (both cxbin_version 1 in the code) and
\* none (None) for every document without a material block
C1_ThreeTags ==
    /\ C1_Dispatch
    /\ Returned =>
          /\ Legacy => result.doc.cxbin_version = Some(1)
          /\ (Versioned /\ Called(NewParser)) => result.doc.cxbin_version = Some(1)
          /\ (Versioned /\ ~Called(NewParser)) => result.doc.cxbin_version = None

\* a version 1 document with UVs attached has been returned
C1_Witness ==
    /\ pc = "done" /\ Returned /\ Versioned /\ Called(NewParser)
    /\ result.doc.uvs # None /\ result.doc.materials # None

(***************************************************************************)
(* C2.  A versioned input whose geometry block parses and whose stream     *)
(* ends right after it decodes to a document with the parsed vertices and  *)
(* faces, cxbin_version None, and no materials, uvs or face_uvs.           *)
(***************************************************************************)
C2_GeometryOnly ==
    (GeometryParsed /\ Len(data) = GeometryEnd /\ pc # "version") =>
        /\ Returned
        /\ result.doc.cxbin_version = None
        /\ result.doc.materials = None
        /\ result.doc.uvs = None
        /\ result.doc.face_uvs = None
        /\ result.doc.vertices = vertices
        /\ result.doc.faces = faces
        /\ Len(result.doc.vertices) = mesh_hdr[1].vert_num
        /\ Len(result.doc.faces) = mesh_hdr[1].face_num
        /\ ~Called(NewParser)

\* a document with vertices has been returned for a stream that ends with the
\* geometry block
C2_Witness ==
    /\ pc = "done" /\ GeometryParsed /\ Len(data) = GeometryEnd /\ Returned
    /\ Len(result.doc.vertices) > 0 /\ Len(result.doc.faces) > 0

(***************************************************************************)
(* C3.  A versioned input whose version field is 0 decodes to the document *)
(* of the same input cut right after the geometry block, but for the       *)
(* version: cxbin_version is 0, where the cut input gives None.  Vertices, *)
(* faces and size counters are equal, materials and UVs are absent.        *)
(***************************************************************************)
\* the stream cut right after the geometry block
CutAfterGeometry == SubSeq(data, 1, GeometryEnd)

VersionZero == GeometryParsed /\ version = Some(0)

\* given t = what load_cxbin gives for the cut stream
SameButVersion(t, ver) ==
    /\ Returned
    /\ t.kind = "doc"
    /\ t.doc.cxbin_version = None
    /\ result.doc = [t.doc EXCEPT !.cxbin_version = ver]
    /\ result.doc.materials = None
    /\ result.doc.uvs = None
    /\ result.doc.face_uvs = None

C3_VersionZero ==
    (VersionZero /\ Exited) => SameButVersion(load_cxbin(CutAfterGeometry), Some(0))

\* C3 as claimed: equal in every field, the version included
C3_EqualInEveryField ==
    (VersionZero /\ Exited) => result = load_cxbin(CutAfterGeometry)

\* a version 0 input with vertices has been decoded
C3_Witness ==
    pc = "done" /\ VersionZero /\ Returned /\ Len(result.doc.vertices) > 0

(***************************************************************************)
(* C4.  A versioned input whose version field is neither 0 nor 1 is        *)
(* decoded like the same input with version field 0: the new material      *)
(* parser is not run, no byte after the version field is consumed, and the *)
(* document is the one of version 0, but for cxbin_version, which is the   *)
(* version integer read.                                                   *)
(***************************************************************************)
\* the stream with its version field replaced by v
WithVersion(v) ==
    SubSeq(data, 1, GeometryEnd) \o PackInt32LE(v)
        \o SubSeq(data, GeometryEnd + 5, Len(data))

UnknownVersion == GeometryParsed /\ version # None /\ version[1] \notin {0, 1}

\* given z = what load_cxbin gives for the stream with version 0
LikeVersionZero(z) ==
    /\ Returned
    /\ z.kind = "doc"
    /\ z.doc.cxbin_version = Some(0)
    /\ result.doc = [z.doc EXCEPT !.cxbin_version = version]
    /\ result.doc.materials = None
    /\ result.doc.uvs = None
    /\ result.doc.face_uvs = None

C4_UnknownVersion ==
    UnknownVersion =>
        /\ ~Called(NewParser)
        /\ pos = GeometryEnd + 4
        /\ Exited => LikeVersionZero(load_cxbin(WithVersion(0)))

\* C4 as claimed: the same document, the version included
C4_SameDocument ==
    UnknownVersion =>
        /\ ~Called(NewParser)
        /\ pos = GeometryEnd + 4
        /\ Exited => result = load_cxbin(WithVersion(0))

\* an input with an unknown version, and bytes after it, has been decoded
C4_Witness ==
    /\ pc = "done" /\ UnknownVersion /\ Returned
    /\ Len(data) > GeometryEnd + 4 /\ Len(result.doc.faces) > 0

(***************************************************************************)
(* C5.  A versioned input whose decompressed geometry payload has not      *)
(* V*12 + F*12 bytes fails, whatever follows in the stream: no document is *)
(* returned, and a returned document's payload had exactly that length.    *)
(***************************************************************************)
\* the geometry payload was decompressed, and its length is / is not the
\* one the declared counts give
PayloadMatches ==
    /\ mesh_hdr # None /\ mesh_raw # None
    /\ Len(mesh_raw[1]) = mesh_hdr[1].vert_num * 12 + mesh_hdr[1].face_num * 12
PayloadMismatches ==
    /\ mesh_hdr # None /\ mesh_raw # None
    /\ Len(mesh_raw[1]) # mesh_hdr[1].vert_num * 12 + mesh_hdr[1].face_num * 12

C5_MismatchFails ==
    /\ PayloadMismatches =>
          /\ Failed /\ result.err = "ValueError"
          /\ Exited
          /\ meta = None /\ vertices = <<>> /\ faces = <<>>
          /\ calls = <<MeshParser>>
    /\ (Returned /\ Versioned) => PayloadMatches

\* a payload of the wrong length, followed by more bytes, has made the decode fail
C5_Witness ==
    /\ pc = "done" /\ PayloadMismatches /\ Failed
    /\ Len(mesh_raw[1]) > 0 /\ Len(data) > pos

(***************************************************************************)
(* C6.  A versioned input with declared counts V >= 0 and F >= 0 whose     *)
(* decompressed geometry payload has V*12 + F*12 bytes has its geometry    *)
(* block decoded; every document returned for a versioned input has V      *)
(* vertices, F faces and uncompressed_bytes = V*12 + F*12; an input with a *)
(* negative V or F never gives a document.                                 *)
(***************************************************************************)
CountsNonNegative == mesh_hdr[1].vert_num >= 0 /\ mesh_hdr[1].face_num >= 0

DocumentMatchesCounts ==
    /\ Len(result.doc.vertices) = mesh_hdr[1].vert_num
    /\ Len(result.doc.faces) = mesh_hdr[1].face_num
    /\ \A i \in 1..Len(result.doc.vertices) : Len(result.doc.vertices[i]) = 3
    /\ \A i \in 1..Len(result.doc.faces) : Len(result.doc.faces[i]) = 3
    /\ result.doc.uncompressed_bytes =
          Some(mesh_hdr[1].vert_num * 12 + mesh_hdr[1].face_num * 12)

\* the geometry block was decoded into V vertices and F faces, and only the
\* material parser can still make the decode fail
GeometryDecoded ==
    /\ GeometryParsed
    /\ Len(vertices) = mesh_hdr[1].vert_num
    /\ Len(faces) = mesh_hdr[1].face_num
    /\ meta[1].uncompressed_bytes = Len(mesh_raw[1])
    /\ Failed => Called(NewParser)

C6_GeometryCounts ==
    /\ (PayloadMatches /\ CountsNonNegative) => GeometryDecoded
    /\ (PayloadMatches /\ ~CountsNonNegative) => Failed /\ Exited /\ meta = None
    /\ (Returned /\ Versioned) =>
          PayloadMatches /\ CountsNonNegative /\ DocumentMatchesCounts

\* C6 as claimed: the decode succeeds for every value of V and F
C6_AllCounts ==
    /\ PayloadMatches => GeometryDecoded
    /\ (Returned /\ Versioned) => DocumentMatchesCounts

\* a document with two vertices and one face has been returned
C6_Witness ==
    /\ pc = "done" /\ Returned /\ Versioned
    /\ mesh_hdr[1].vert_num = 2 /\ mesh_hdr[1].face_num = 1
    /\ Len(result.doc.vertices) = 2

(***************************************************************************)
(* C7.  For a versioned input of version 1, a failure inside the material  *)
(* block (a short read of a header field or of the compressed payload, a   *)
(* malformed compressed stream, a decompressed length that is not          *)
(* total_num, or a UV / face-UV / texture-id / material / name slice that  *)
(* exceeds the decompressed buffer) makes load_cxbin fail: no document is  *)
(* returned, the geometry already parsed included.  A decompressed length  *)
(* that is not total_num fails the legacy parser in the same way.          *)
(***************************************************************************)
RECURSIVE SumPositive(_)
SumPositive(sizes) ==
    IF sizes = <<>> THEN 0 ELSE Max(0, Head(sizes)) + SumPositive(Tail(sizes))

\* the bytes the slices before the texture maps need, by the header read
SliceBytes ==
    8 * Max(0, hdr.uv_num) + 12 * Max(0, hdr.face_uv_num)
        + 4 * Max(0, hdr.texture_id_num) + SumPositive(hdr.material_sizes)
        + Max(0, hdr.mtl_name_len)

\* the new parser was entered for a versioned input of version 1
MaterialEntered == GeometryParsed /\ version = Some(1) /\ Called(NewParser)

\* its header was read, and a slice exceeds the decompressed buffer
SliceExceeds == hdr # NoHeader /\ SliceBytes > Len(raw)

NoDocument ==
    /\ ~Returned
    /\ mats = None
    /\ pc \notin {"assemble", "assemble_legacy"}
    /\ Exited => Failed

\* given b = the header and payload of the material block, read from the
\* stream at the offset that follows the version field
MaterialFailure(b) ==
    /\ (~b.ok \/ SliceExceeds) => NoDocument
    /\ ~b.ok => Exited /\ result.err = b.err /\ hdr = NoHeader
    /\ Returned => b.ok /\ ~SliceExceeds

\* given b = the header and payload of the legacy block
LegacyFailure(b) == (~b.ok /\ b.err = "ValueError") => NoDocument /\ Exited

C7_MaterialFailure ==
    /\ MaterialEntered => MaterialFailure(ReadBlockHeader(data, GeometryEnd + 4, 5))
    /\ (Legacy /\ Called(OldParser)) => LegacyFailure(ReadBlockHeader(data, HeaderBytes, 7))

\* the header or payload of the material block is unreadable, by kind of failure
HeaderFails(kind) ==
    /\ ~ReadBlockHeader(data, GeometryEnd + 4, 5).ok
    /\ ReadBlockHeader(data, GeometryEnd + 4, 5).err = kind

\* the legacy payload does not decompress to total_num bytes
LegacyMismatch ==
    /\ Legacy /\ Called(OldParser)
    /\ ~ReadBlockHeader(data, HeaderBytes, 7).ok
    /\ ReadBlockHeader(data, HeaderBytes, 7).err = "ValueError"

\* a material slice past the end of the buffer has failed a decode whose
\* geometry was parsed
C7_Witness ==
    /\ pc = "done" /\ MaterialEntered /\ SliceExceeds /\ Failed
    /\ Len(vertices) > 0 /\ Len(pmats.material_blocks) > 0

\* the other failures of the claim, each of them reachable
C7_ShortRead == pc = "done" /\ MaterialEntered /\ HeaderFails("EOFError") /\ Failed
C7_Malformed == pc = "done" /\ MaterialEntered /\ HeaderFails("zlib.error") /\ Failed
C7_Mismatch == pc = "done" /\ MaterialEntered /\ HeaderFails("ValueError") /\ Failed
C7_Legacy == pc = "done" /\ LegacyMismatch /\ Failed

(***************************************************************************)
(* C8.  A document returned for a versioned input of version 1, whose      *)
(* material block declares U UVs, FU face UVs, M materials and sizes       *)
(* s_1..s_M, has: uvs of U rows of 2 when U > 0 and no uvs otherwise;      *)
(* face_uvs of FU rows of 3 when FU > 0 and none otherwise; max(0, M)      *)
(* material blobs, the i-th of them the max(0, s_i) bytes that follow the  *)
(* arrays and the blobs before it in the decompressed buffer (a size of 0  *)
(* or less gives an empty blob and no error).                              *)
(***************************************************************************)
\* an optional array of n rows when n > 0, absent otherwise
RowsIfPositive(a, n, cols) ==
    IF n > 0
    THEN a # None /\ Len(a[1]) = n /\ \A i \in 1..n : Len(a[1][i]) = cols
    ELSE a = None

\* the offset of the i-th material blob in the decompressed buffer
BlobOffset(i) ==
    8 * Max(0, hdr.uv_num) + 12 * Max(0, hdr.face_uv_num)
        + 4 * Max(0, hdr.texture_id_num)
        + SumPositive(SubSeq(hdr.material_sizes, 1, i - 1))

MaterialReturned == MaterialEntered /\ Returned

C8_MaterialCounts ==
    MaterialReturned =>
        /\ result.doc.materials # None
        /\ RowsIfPositive(result.doc.uvs, hdr.uv_num, 2)
        /\ RowsIfPositive(result.doc.face_uvs, hdr.face_uv_num, 3)
        /\ Len(hdr.material_sizes) = Max(0, hdr.material_num)
        /\ Len(result.doc.materials[1].material_blocks) = Max(0, hdr.material_num)
        /\ \A i \in 1..Len(hdr.material_sizes) :
              /\ Len(result.doc.materials[1].material_blocks[i])
                    = Max(0, hdr.material_sizes[i])
              /\ result.doc.materials[1].material_blocks[i]
                    = SubSeq(raw, BlobOffset(i) + 1,
                             BlobOffset(i) + Max(0, hdr.material_sizes[i]))

\* C8 as claimed: the lengths are the declared values, whatever their sign
C8_DeclaredCounts ==
    MaterialReturned =>
        /\ LenOpt(result.doc.uvs) = hdr.uv_num
        /\ LenOpt(result.doc.face_uvs) = hdr.face_uv_num
        /\ Len(result.doc.materials[1].material_blocks) = hdr.material_num
        /\ \A i \in 1..Len(hdr.material_sizes) :
              Len(result.doc.materials[1].material_blocks[i]) = hdr.material_sizes[i]

\* a document with UVs, face UVs, an empty blob and a blob of two bytes
C8_Witness ==
    /\ pc = "done" /\ MaterialReturned
    /\ hdr.uv_num > 0 /\ hdr.face_uv_num > 0
    /\ hdr.material_sizes = <<0, 2>>
    /\ Len(result.doc.materials[1].material_blocks[2]) = 2

(***************************************************************************)
(* C9.  In both material parsers, an iteration of the texture map loop on  *)
(* a map whose declared body size (the size prefix; width * height * 4 for *)
(* a legacy map with a body, that is of positive width and height) exceeds *)
(* the bytes that remain after its prefix raises nothing and appends one   *)
(* entry, whose data are the bytes that remained.  Once a texture is       *)
(* recorded the decode does not fail, and the document returned carries    *)
(* the recorded textures.                                                  *)
(***************************************************************************)
\* the 32-bit field at offset p of the decompressed buffer
FieldAt(p) == UnpackInt32LE(SubSeq(raw, p + 1, p + 4))

\* the loop of either parser is at a map whose prefix can be read
AtNewMap == pc = "new_maps" /\ idx < Max(0, hdr.map_type_count) /\ ptr + 4 <= Len(raw)
AtOldMap == pc = "old_maps" /\ idx < Max(0, hdr.map_type_count) /\ ptr + 8 <= Len(raw)

\* the map has a body, of more declared bytes than remain after its prefix
NewOverrun == AtNewMap /\ FieldAt(ptr) > Len(raw) - (ptr + 4)
OldOverrun ==
    /\ AtOldMap
    /\ FieldAt(ptr) > 0 /\ FieldAt(ptr + 4) > 0
    /\ FieldAt(ptr) * FieldAt(ptr + 4) * 4 > Len(raw) - (ptr + 8)

\* the iteration appended one entry, of the bytes of raw from offset p on
AppendedRest(p) ==
    /\ result' = result
    /\ pc' = pc
    /\ idx' = idx + 1
    /\ ptr' = Len(raw)
    /\ Len(pmats'.textures) = Len(pmats.textures) + 1
    /\ SubSeq(pmats'.textures, 1, Len(pmats.textures)) = pmats.textures
    /\ Len(pmats'.textures[Len(pmats'.textures)].data) = Len(raw) - p
    /\ pmats'.textures[Len(pmats'.textures)].data = SubSeq(raw, p + 1, Len(raw))

ClampStep ==
    /\ NewOverrun => AppendedRest(ptr + 4)
    /\ OldOverrun => AppendedRest(ptr + 8)
    /\ Len(pmats'.textures) > 0 => result'.kind # "error"
    /\ (pc' = "done" /\ Len(pmats'.textures) > 0) =>
          /\ result'.kind = "doc"
          /\ result'.doc.materials[1].textures = pmats'.textures

C9_Legacy ==
    /\ pc = "done" /\ Returned /\ Called(OldParser)
    /\ Len(pmats.textures) > 0
    /\ ptr = Len(raw)
    /\ Len(pmats.textures[Len(pmats.textures)].data) > 0
    /\ ~pmats.textures[Len(pmats.textures)].is_png
    /\ FieldAt(ptr - Len(pmats.textures[Len(pmats.textures)].data) - 8) > 0
    /\ FieldAt(ptr - Len(pmats.textures[Len(pmats.textures)].data) - 4) > 0
    /\ FieldAt(ptr - Len(pmats.textures[Len(pmats.textures)].data) - 8)
          * FieldAt(ptr - Len(pmats.textures[Len(pmats.textures)].data) - 4) * 4
          > Len(pmats.textures[Len(pmats.textures)].data)

(***************************************************************************)
(* C10.  An iteration of the legacy texture map loop on a map of positive  *)
(* width and height reads the bytes of its body (width * height * 4 of     *)
(* them, or those that remain) and appends one entry with size_hint        *)
(* (width, height): the PNG bytes with is_png true when the encoding of    *)
(* the bytes read succeeds, the bytes read themselves with is_png false    *)
(* when it fails.  The iteration raises nothing and the loop goes on.      *)
(***************************************************************************)
\* the loop is at a map with a body
AtOldBody == AtOldMap /\ FieldAt(ptr) > 0 /\ FieldAt(ptr + 4) > 0

\* the bytes the iteration reads
BodyRead ==
    SubSeq(raw, ptr + 9, Min(ptr + 8 + FieldAt(ptr) * FieldAt(ptr + 4) * 4, Len(raw)))

\* the entry the iteration has to append, given png = the encoding of body
EntryOf(width, height, body, png) ==
    IF png.ok
    THEN [data |-> png.png, is_png |-> TRUE, size_hint |-> Some(<<width, height>>)]
    ELSE [data |-> body, is_png |-> FALSE, size_hint |-> Some(<<width, height>>)]

EncodeStep ==
    AtOldBody =>
        /\ result' = result
        /\ pc' = "old_maps"
        /\ idx' = idx + 1
        /\ ptr' = ptr + 8 + Len(BodyRead)
        /\ pmats'.textures =
              Append(pmats.textures,
                     EntryOf(FieldAt(ptr), FieldAt(ptr + 4), BodyRead,
                             try_png_bytes_from_rgba(FieldAt(ptr), FieldAt(ptr + 4),
                                                     BodyRead)))

C10_EncodeOrRaw == [][EncodeStep]_vars

\* a legacy document with a 4 x 2 map encoded from 32 bytes
C10_Witness ==
    /\ pc = "done" /\ Returned /\ Called(OldParser)
    /\ Len(result.doc.materials[1].textures) = 1
    /\ result.doc.materials[1].textures[1].is_png
    /\ result.doc.materials[1].textures[1].size_hint = Some(<<4, 2>>)
    /\ Len(result.doc.materials[1].textures[1].data) > 32

\* a legacy document with a map whose encoding failed: the bytes read are kept
C10_RawKept ==
    /\ pc = "done" /\ Returned /\ Called(OldParser)
    /\ Len(result.doc.materials[1].textures) > 0
    /\ ~result.doc.materials[1].textures[1].is_png
    /\ result.doc.materials[1].textures[1].size_hint # None
    /\ Len(result.doc.materials[1].textures[1].data) > 0

(***************************************************************************)
(* C11.  In every document returned, for either layout, every texture      *)
(* entry has is_png true if and only if its data begin with the 8-byte PNG *)
(* signature.                                                              *)
(***************************************************************************)
\* the texture entries of the document returned
TexturesReturned ==
    IF Returned /\ result.doc.materials # None
    THEN result.doc.materials[1].textures ELSE <<>>

C11_IsPngIffSignature ==
    \A i \in 1..Len(TexturesReturned) :
        TexturesReturned[i].is_png <=> StartsWithPng(TexturesReturned[i].data)

\* what the code keeps: the equivalence in the new layout; in the legacy
\* layout an entry marked is_png holds the PNG written by the encoder, and an
\* entry not marked holds the bytes read, whatever they begin with
C11_NewLayout ==
    Called(NewParser) => C11_IsPngIffSignature

C11_LegacyMarked ==
    Called(OldParser) =>
        \A i \in 1..Len(TexturesReturned) :
            TexturesReturned[i].is_png => StartsWithPng(TexturesReturned[i].data)

\* a legacy entry of bytes read that begin with the signature, not marked
C11_LegacyUnmarked ==
    /\ pc = "done" /\ Called(OldParser)
    /\ Len(TexturesReturned) = 1
    /\ ~TexturesReturned[1].is_png
    /\ StartsWithPng(TexturesReturned[1].data)

\* a new layout entry marked is_png, and one not marked
C11_NewMarked ==
    /\ pc = "done" /\ Called(NewParser)
    /\ Len(TexturesReturned) = 1 /\ TexturesReturned[1].is_png
C11_NewUnmarked ==
    /\ pc = "done" /\ Called(NewParser)
    /\ Len(TexturesReturned) = 1 /\ ~TexturesReturned[1].is_png
    /\ Len(TexturesReturned[1].data) > 0

(***************************************************************************)
(* C12.  A document returned for a versioned input (geometry-only, version *)
(* 0, version 1, unknown version) reports as compressed_bytes the          *)
(* compressed-length field of the geometry block, bytes 28-31 of the file, *)
(* and as uncompressed_bytes the length of its decompressed payload; a     *)
(* document returned for a legacy input reports no counter at all.         *)
(***************************************************************************)
\* the compressed-length field of the geometry block, read from the file
GeometryCompressedField == UnpackInt32LE(SubSeq(data, HeaderBytes + 13, HeaderBytes + 16))

C12_CompressedBytes ==
    Returned =>
        /\ Versioned =>
              /\ result.doc.compressed_bytes = Some(GeometryCompressedField)
              /\ result.doc.uncompressed_bytes = Some(Len(mesh_raw[1]))
        /\ Legacy =>
              /\ result.doc.compressed_bytes = None
              /\ result.doc.uncompressed_bytes = None

\* C12 as claimed: every layout, legacy included, reports the
\* compressed-length field of its block header
C12_EveryLayout ==
    Returned =>
        result.doc.compressed_bytes
            = Some(IF Legacy THEN hdr.compress_num ELSE GeometryCompressedField)

\* a version 1 document, whose material block has another compressed length
\* than its geometry block
C12_Witness ==
    /\ pc = "done" /\ MaterialReturned
    /\ result.doc.compressed_bytes # None
    /\ result.doc.compressed_bytes[1] = GeometryCompressedField
    /\ hdr.compress_num # GeometryCompressedField
    /\ result.doc.compressed_bytes # result.doc.uncompressed_bytes

(***************************************************************************)
(* C13.  Two calls of load_cxbin on the same buffer end in the same        *)
(* outcome, the same failure or equal documents, whatever was decoded in   *)
(* between and whether the buffer is given as a path or as a stream; the   *)
(* outcome of a call is the one of the first call ever made on the buffer. *)
(***************************************************************************)
CallEnded == pc = "done"

C13_FailsAgain ==
    /\ CallEnded /\ ncalls > 1
    /\ previous # None /\ previous[1].data = data
    /\ Failed

(***************************************************************************)
(* C14.  With --json, when main() has ended, by a return, by sys.exit or   *)
(* by an exception, what it wrote to stdout is exactly one JSON object,    *)
(* and at no moment has it written anything else.                          *)
(***************************************************************************)
JsonMode == args # None /\ args[1].json
MainEnded == cpc \in {"returned", "exit1", "raised"}

OnlyJson == \A i \in 1..Len(stdout) : stdout[i].kind = "json"

C14_OnlyJson ==
    JsonMode =>
        /\ OnlyJson
        /\ Len(stdout) <= 1
        /\ MainEnded => Len(stdout) = 1

\* what the code keeps: without --list-formats nothing but JSON is written,
\* at most one object, and exactly one when main returns or calls sys.exit
C14_UnlessListed ==
    (JsonMode /\ ~args[1].list_formats) =>
        /\ OnlyJson
        /\ Len(stdout) <= 1
        /\ cpc \in {"returned", "exit1"} => Len(stdout) = 1

\* --json --list-formats has written the list of formats, as text
C14_FormatsAsText ==
    /\ JsonMode /\ cpc = "returned"
    /\ stdout = <<Text("formats")>>

\* --json on a file that load_cxbin fails to decode has written nothing
C14_NothingWritten ==
    /\ JsonMode /\ cpc = "raised"
    /\ stdout = <<>>

(***************************************************************************)
(* C20.  In batch mode, when main() has ended, results holds exactly one   *)
(* entry per gathered input, in order; the entry of an input that          *)
(* load_cxbin fails to decode has success false and an error message; and  *)
(* every entry has success true exactly when its error is None.            *)
(***************************************************************************)
BatchMode == args # None /\ ~args[1].list_formats /\ args[1].input /\ found # <<>>

EntriesInOrder ==
    \A i \in 1..Len(results) :
        /\ results[i].input = i
        /\ results[i].success <=> results[i].error = None
        /\ found[i] = DamagedFile => ~results[i].success

C20_OneEntryPerInput ==
    (BatchMode /\ MainEnded) =>
        /\ Len(results) = Len(found)
        /\ EntriesInOrder

\* what the code keeps: the entries are those of the inputs converted so
\* far, in order, none of them an input that load_cxbin failed to decode;
\* the batch is complete when main returns, and is cut short, with no entry
\* for the input, when load_cxbin fails
C20_UntilFailure ==
    BatchMode =>
        /\ Len(results) <= Len(found)
        /\ EntriesInOrder
        /\ \A i \in 1..Len(results) : found[i] # DamagedFile
        /\ cpc = "returned" => Len(results) = Len(found)
        /\ cpc = "raised" =>
              /\ Len(results) < Len(found)
              /\ found[Len(results) + 1] = DamagedFile

\* a batch of two inputs ended at the first, which load_cxbin failed to
\* decode: no entry for it, and the second input was not converted
C20_BatchCutShort ==
    /\ BatchMode /\ cpc = "raised"
    /\ Len(found) = 2 /\ results = <<>>
    /\ found[2] # DamagedFile

\* a batch whose export failed for the first input went on to the second
C20_ExportFailureRecorded ==
    /\ BatchMode /\ cpc = "returned"
    /\ Len(results) = 2
    /\ ~results[1].success /\ results[2].success

(***************************************************************************)
(* C15: a texture map whose prefix cannot be read ends the loop, not the   *)
(* decoding.                                                               *)
(***************************************************************************)
InMapLoop == pc \in {"new_maps", "old_maps"}

\* the bytes of the prefix of one map: [size], legacy [width][height]
PrefixBytes == IF pc = "old_maps" \/ Called(OldParser) THEN 8 ELSE 4

\* map idx is due and fewer bytes than its prefix remain in raw
PrefixUnreadable ==
    InMapLoop /\ idx < Max(0, hdr.map_type_count) /\ ptr + PrefixBytes > Len(raw)

\* the parser returns the maps read so far, and nothing is raised
LoopLeft ==
    /\ pmats' = pmats
    /\ mats' = Some(pmats)
    /\ result' = result
    /\ pc' \in {"assemble", "assemble_legacy"}

\* the document is assembled around the parser's result
Assembled ==
    /\ result'.kind = "doc"
    /\ result'.doc.materials = mats

\* a document whose materials come from a material parser
MapsReturned == Returned /\ (Called(NewParser) \/ Called(OldParser))

\* C15 as stated: the loop stops without an error at a map whose prefix
\* cannot be read, and the number of texture entries is at most max(0, K)
\* and equals K whenever every prefix could be read
C15_CountIsK ==
    /\ MapsReturned => Len(TexturesReturned) <= Max(0, hdr.map_type_count)
    /\ MapsReturned /\ idx = Max(0, hdr.map_type_count)
         => Len(TexturesReturned) = hdr.map_type_count

\* C15, what the code keeps: when fewer than 4 (legacy 8) bytes remain for
\* the prefix of map i, the parser returns the i maps read before it,
\* unchanged, and load_cxbin returns a document holding them; the number of
\* texture entries is at most max(0, K), it is smaller only when a prefix
\* could not be read, and it equals max(0, K) otherwise
C15_LoopStops ==
    /\ [][(PrefixUnreadable => LoopLeft)
           /\ (pc \in {"assemble", "assemble_legacy"} => Assembled)]_vars
    /\ [](InMapLoop => Len(pmats.textures) = idx /\ idx <= Max(0, hdr.map_type_count))
    /\ [](MapsReturned =>
            /\ TexturesReturned = pmats.textures
            /\ Len(TexturesReturned) = idx
            /\ idx <= Max(0, hdr.map_type_count)
            /\ idx < Max(0, hdr.map_type_count) => ptr + PrefixBytes > Len(raw))

\* a document with one map read and the next one lost with its prefix
C15_Witness ==
    /\ MapsReturned /\ Called(NewParser)
    /\ Len(TexturesReturned) >= 1
    /\ Len(TexturesReturned) < hdr.map_type_count
    /\ ptr < Len(raw)

\* the same in the legacy layout
C15_LegacyWitness ==
    /\ MapsReturned /\ Called(OldParser)
    /\ Len(TexturesReturned) >= 1
    /\ Len(TexturesReturned) < hdr.map_type_count
    /\ ptr < Len(raw)

\* a negative K with no entry
C15_NegativeCount == MapsReturned /\ hdr.map_type_count < 0

(***************************************************************************)
(* C16: a legacy texture map of non-positive width or height.              *)
(***************************************************************************)
\* the legacy loop is at a map whose width or height is not positive
AtFlatMap == AtOldMap /\ (FieldAt(ptr) <= 0 \/ FieldAt(ptr + 4) <= 0)

\* the entry of a map without a body
EmptyEntry(width, height) ==
    [data |-> <<>>, is_png |-> FALSE, size_hint |-> Some(<<width, height>>)]

\* C16: in the legacy parser a texture map whose width or height is not
\* positive appends an entry with empty data, is_png false and size_hint
\* (width, height), moves ptr past the 8 prefix bytes only, raises nothing
\* and leaves the loop at the next map
C16_EmptyEntry ==
    [][AtFlatMap =>
        /\ pmats'.textures = Append(pmats.textures, EmptyEntry(FieldAt(ptr), FieldAt(ptr + 4)))
        /\ ptr' = ptr + 8
        /\ result' = result
        /\ pc' = "old_maps"
        /\ idx' = idx + 1]_vars

\* a legacy document whose first map is flat and whose second one was encoded
C16_Witness ==
    /\ MapsReturned /\ Called(OldParser)
    /\ Len(TexturesReturned) = 2
    /\ \E w \in -2..2, h \in -2..2 :
          /\ w <= 0 \/ h <= 0
          /\ TexturesReturned[1] = EmptyEntry(w, h)
    /\ TexturesReturned[2].is_png

(***************************************************************************)
(* C17: the 12 reserved bytes of the file header are read and ignored.     *)
(***************************************************************************)
\* a and b are equal but for their bytes at offsets 4..15
EqualButReserved(a, b) ==
    /\ Len(a) = Len(b)
    /\ \A i \in 1..Len(a) : i \notin 5..16 => a[i] = b[i]

\* C17: two buffers that differ only in their bytes at offsets 4..15 are
\* decoded to the same outcome, the same failure or equal documents, and a
\* buffer of fewer than 16 bytes fails with EOFError
C17_ReservedIgnored ==
    /\ (CallEnded /\ previous # None /\ EqualButReserved(previous[1].data, data))
          => result = previous[1].result
    /\ (CallEnded /\ Len(data) < HeaderBytes) => Failed /\ result.err = "EOFError"

\* two documents of buffers with different reserved bytes
C17_Witness ==
    /\ CallEnded /\ previous # None
    /\ EqualButReserved(previous[1].data, data) /\ previous[1].data # data
    /\ Returned /\ Len(TexturesReturned) > 0

\* two failures of buffers cut inside the reserved bytes
C17_CutWitness ==
    /\ CallEnded /\ previous # None
    /\ EqualButReserved(previous[1].data, data) /\ previous[1].data # data
    /\ Len(data) < HeaderBytes /\ Failed

(***************************************************************************)
(* C18: the cursors only advance and stay inside their buffers.            *)
(***************************************************************************)
\* a material parser is past its header and payload, in its sequence of takes
Taking ==
    pc \in {"new_uvs", "new_face_uvs", "new_texture_ids", "new_materials", "new_name",
            "new_maps", "old_vertices", "old_faces", "old_uvs", "old_face_uvs",
            "old_texture_ids", "old_materials", "old_name", "old_maps"}

\* C18: during a decode the stream position never decreases and stays
\* inside the source; in both material parsers ptr never decreases and
\* 0 <= ptr <= len(raw) at every step, a texture map moves ptr past its
\* prefix and its clamped body without leaving raw, and a take that fails
\* leaves ptr where it was
C18_CursorsAdvance ==
    /\ [](0 <= pos /\ pos <= Len(data) /\ 0 <= ptr /\ ptr <= Len(raw))
    /\ [][/\ pos' >= pos
          /\ ptr' >= ptr
          /\ AtNewMap => ptr' >= ptr + 4 /\ ptr' <= Len(raw)
          /\ AtOldMap => ptr' >= ptr + 8 /\ ptr' <= Len(raw)
          /\ (Taking /\ result'.kind = "error") => ptr' = ptr]_vars

\* a take failed after earlier ones had moved ptr into raw
C18_Witness ==
    /\ Failed /\ result.err = "ValueError"
    /\ Called(NewParser) \/ Called(OldParser)
    /\ 0 < ptr /\ ptr < Len(raw)

\* a clamped body was taken: ptr is at the end of raw
C18_ClampWitness ==
    /\ MapsReturned /\ Len(TexturesReturned) > 0
    /\ ptr = Len(raw) /\ pos = Len(data)

(***************************************************************************)
(* C19: the end of the input is tolerated at the version read only.        *)
(***************************************************************************)
\* the bytes of the source after the geometry block
TrailingBytes == Len(data) - GeometryEnd

\* s is the source cut short
CutShort(s) == Len(data) < Len(s) /\ data = SubSeq(s, 1, Len(data))

\* the length of the file header and geometry block of CanonicalVersioned
CanonicalGeometryEnd == Len(FileHeader(0) \o GeometryBlock(1, 1, 2, "ok"))

\* the source ends in the version field of CanonicalVersioned, or before it
EndsAtVersion ==
    CutShort(CanonicalVersioned) /\ Len(data) - CanonicalGeometryEnd \in 0..3

\* C19: a versioned input with 0, 1, 2 or 3 bytes after its geometry block
\* decodes to the geometry-only document of the input with 0 such bytes,
\* version None and no materials; a well-formed versioned or legacy file cut
\* anywhere else (in the header code, the reserved bytes, a block header, a
\* compressed payload) fails with EOFError
C19_EndAtVersionOnly ==
    /\ (GeometryParsed /\ pc # "version" /\ TrailingBytes \in 0..3) =>
          /\ Returned
          /\ result.doc.cxbin_version = None
          /\ result.doc.materials = None
          /\ result = load_cxbin(CutAfterGeometry)
          /\ calls = <<MeshParser>>
    /\ (Exited /\ CutShort(CanonicalVersioned) /\ ~EndsAtVersion) =>
          Failed /\ result.err = "EOFError"
    /\ (Exited /\ CutShort(CanonicalLegacy)) => Failed /\ result.err = "EOFError"

\* two bytes of a version field, and a geometry-only document
C19_Witness ==
    /\ CallEnded /\ GeometryParsed /\ TrailingBytes = 2
    /\ Returned /\ Len(result.doc.vertices) > 0

\* a file cut inside the compressed payload of its material block
C19_CutWitness ==
    /\ CallEnded /\ CutShort(CanonicalVersioned)
    /\ Len(data) = Len(CanonicalVersioned) - 1
    /\ Failed /\ Called(NewParser)

\* a legacy file cut inside its block header
C19_LegacyCutWitness ==
    /\ CallEnded /\ CutShort(CanonicalLegacy)
    /\ Len(data) = HeaderBytes + 6
    /\ Failed

(***************************************************************************)
(* C21: who opened the source closes it.                                   *)
(***************************************************************************)
\* C21: given a path, load_cxbin opens the file itself, reads it while it
\* is open and has closed it at every exit, by a return (the early
\* geometry-only return included) or by a failure; given an open stream it
\* never closes it
C21_Ownership ==
    /\ pc # "start" => close_after = fp_is_path
    /\ (CallEnded /\ fp_is_path) => f_closed
    /\ ~fp_is_path => ~f_closed
    /\ ~CallEnded => ~f_closed
    /\ CallEnded => Returned \/ Failed

\* the early geometry-only return, of a file load_cxbin opened and closed
C21_Witness ==
    /\ CallEnded /\ fp_is_path /\ f_closed
    /\ Returned /\ GeometryParsed /\ version = None

\* a failure inside a material parser, and the file is closed
C21_FailureClosed ==
    /\ CallEnded /\ fp_is_path /\ f_closed
    /\ Failed /\ (Called(NewParser) \/ Called(OldParser))

\* a document with materials, and the file is closed
C21_ReturnClosed ==
    /\ CallEnded /\ fp_is_path /\ f_closed
    /\ MapsReturned

\* a stream left open after a failure, and after a return
C21_StreamLeftOpen == CallEnded /\ ~fp_is_path /\ ~f_closed /\ Failed
C21_StreamLeftOpenOnReturn == CallEnded /\ ~fp_is_path /\ ~f_closed /\ Returned

=============================================================================
